---- MODULE Spec2Model ----
(***************************************************************************)
(* Block-tree terms dictionary reader (rucene, core/codec/blocktree).      *)
(* The model follows SegmentTermIteratorInner of blocktree_reader.rs: the  *)
(* frame stack, the arc cache, the term buffer and the navigation          *)
(* operations next, seek_exact, seek_ceil and seek_exact_state.  The frame *)
(* (term_iter_frame.rs) and the FST are collaborators of that file; they   *)
(* are modelled from their contracts.                                      *)
(***************************************************************************)
EXTENDS Integers, Sequences, FiniteSets, TLC

\* ------------------------------------------------------------------------
\* Bounds of the model
\* ------------------------------------------------------------------------
\* number of public iterator calls in one behaviour
MaxOps == 2
\* longest seek target
MaxTargetLen == 2
\* directory entries of a terms file
MaxEntries == 2
\* entries of a norms metadata file before its end marker
MaxNormsEntries == 2

\* ------------------------------------------------------------------------
\* Program constants
\* ------------------------------------------------------------------------
OUTPUT_FLAGS_NUM_BITS == 2
OUTPUT_FLAGS_IS_FLOOR == 1
OUTPUT_FLAGS_HAS_TERMS == 2

\* ------------------------------------------------------------------------
\* Byte strings
\* ------------------------------------------------------------------------
Bytes == {1, 2, 3}

Min(a, b) == IF a < b THEN a ELSE b

IsPrefix(p, t) == Len(p) <= Len(t) /\ SubSeq(t, 1, Len(p)) = p

\* lexicographic order on unsigned bytes, shorter string first on a tie
RECURSIVE CmpFrom(_, _, _)
CmpFrom(a, b, i) ==
    IF i > Len(a) \/ i > Len(b)
    THEN (IF Len(a) < Len(b) THEN -1 ELSE IF Len(a) > Len(b) THEN 1 ELSE 0)
    ELSE IF a[i] < b[i] THEN -1
    ELSE IF a[i] > b[i] THEN 1
    ELSE CmpFrom(a, b, i + 1)

BytesCmp(a, b) == CmpFrom(a, b, 1)

\* Vec::resize(len, 0)
Resize(v, n) ==
    IF Len(v) >= n THEN SubSeq(v, 1, n)
    ELSE v \o [i \in 1..(n - Len(v)) |-> 0]

\* DataInput::read_vlong on a byte slice: seven bits a byte, the low bits
\* first, the high bit of a byte says that another byte follows
RECURSIVE read_vlong(_)
read_vlong(bytes) ==
    IF bytes = <<>> THEN 0
    ELSE (bytes[1] % 128)
         + (IF bytes[1] >= 128 THEN 128 * read_vlong(Tail(bytes)) ELSE 0)

\* ------------------------------------------------------------------------
\* The files of a field: blocks of the terms file and the terms index
\* ------------------------------------------------------------------------
\* a term entry of a block: suffix, docFreq, totalTermFreq delta, and the
\* one long the postings reader stores (absolute for the first term of a
\* block, a delta for the later ones)
T(sfx, df, ttfd, lng) ==
    [suffix |-> sfx, sub |-> FALSE, sub_code |-> 0,
     df |-> df, ttfd |-> ttfd, lng |-> lng]

\* a sub-block entry: suffix and the distance from this block back to the
\* first block of the child
S(sfx, code) ==
    [suffix |-> sfx, sub |-> TRUE, sub_code |-> code,
     df |-> 0, ttfd |-> 0, lng |-> 0]

Blk(pfx, ents, lastInFloor, fpEnd) ==
    [prefix |-> pfx, ents |-> ents, last |-> lastInFloor, fp_end |-> fpEnd]

\* Field "A": nine terms; the block of prefix 2 is split into two floor
\* blocks (fp 2 and fp 3) and holds the nested leaf block 2,2 (fp 1).
\*   1  2  21  221  223  23  231  3  31
FieldA ==
    [name |-> "A",
     blocks |->
        (1 :> Blk(<<2, 2>>, << T(<<1>>, 1, 0, 10), T(<<3>>, 2, 1, 3) >>, TRUE, 2)
      @@ 2 :> Blk(<<2>>, << T(<<>>, 1, 2, 20), T(<<1>>, 3, 0, 2), S(<<2>>, 1) >>,
                  FALSE, 3)
      @@ 3 :> Blk(<<2>>, << T(<<3>>, 2, 2, 30), T(<<3, 1>>, 1, 1, 4) >>, TRUE, 4)
      @@ 4 :> Blk(<<>>, << T(<<1>>, 1, 1, 40), S(<<2>>, 2), T(<<3>>, 4, 0, 5),
                           T(<<3, 1>>, 1, 3, 6) >>, TRUE, 5)),
     index |->
        (<<>> :> <<18>>
      @@ <<2>> :> <<11, 1, 3, 3>>
      @@ <<2, 2>> :> <<6>>),
     root_code |-> <<18>>,
     num_terms |-> 9]

\* Field "B": six terms; the root block holds sub-blocks only (no terms);
\* the block of prefix 3 is split into three floor blocks (fp 2, 3, 4).
\*   11  12  31  32  33  331
FieldB ==
    [name |-> "B",
     blocks |->
        (1 :> Blk(<<1>>, << T(<<1>>, 2, 0, 7), T(<<2>>, 1, 1, 1) >>, TRUE, 2)
      @@ 2 :> Blk(<<3>>, << T(<<1>>, 1, 0, 11) >>, FALSE, 3)
      @@ 3 :> Blk(<<3>>, << T(<<2>>, 2, 2, 12) >>, FALSE, 4)
      @@ 4 :> Blk(<<3>>, << T(<<3>>, 3, 0, 13), T(<<3, 1>>, 1, 0, 2) >>, TRUE, 5)
      @@ 5 :> Blk(<<>>, << S(<<1>>, 4), S(<<3>>, 3) >>, TRUE, 6)),
     index |->
        (<<>> :> <<20>>
      @@ <<1>> :> <<6>>
      @@ <<3>> :> <<11, 2, 2, 3, 3, 5>>),
     root_code |-> <<20>>,
     num_terms |-> 6]

\* Field "C": eight terms; the root block holds the sub-block 1,1 under a
\* two-byte suffix; that block is split into three floor blocks (fp 2, 3, 4)
\* of which the second holds no term, only the nested leaf block 1,1,2. The
\* root block lies at fp 70, so that its code 70 * 4 + 2 = 282 takes the two
\* bytes 154, 2 as a var-long.
\*   1  11  111  112  1121  113  12  3
FieldC ==
    [name |-> "C",
     blocks |->
        (1 :> Blk(<<1, 1, 2>>, << T(<<>>, 2, 1, 8), T(<<1>>, 1, 0, 3) >>, TRUE, 2)
      @@ 2 :> Blk(<<1, 1>>, << T(<<>>, 1, 0, 21), T(<<1>>, 2, 3, 1) >>, FALSE, 3)
      @@ 3 :> Blk(<<1, 1>>, << S(<<2>>, 2) >>, FALSE, 4)
      @@ 4 :> Blk(<<1, 1>>, << T(<<3>>, 1, 1, 23) >>, TRUE, 5)
      @@ 70 :> Blk(<<>>, << T(<<1>>, 3, 0, 31), S(<<1, 1>>, 68),
                            T(<<1, 2>>, 1, 2, 4), T(<<3>>, 2, 0, 5) >>, TRUE, 71)),
     index |->
        (<<>> :> <<154, 2>>
      @@ <<1, 1>> :> <<11, 2, 2, 2, 3, 5>>
      @@ <<1, 1, 2>> :> <<6>>),
     root_code |-> <<154, 2>>,
     num_terms |-> 8]

Fields == {FieldA, FieldB, FieldC}

\* A family of block trees: the root block holds the sub-block of prefix 2,
\* with a term before it (pre) and a term behind it (post); the block of
\* prefix 2 is written as one, two or three floor blocks (floors) and holds
\* the term 2 itself (head), the term 21, the nested leaf block 2,2 (nested)
\* or the term 22, the term 23 and the term 231 (tail).
TreeBlocks(pre, post, floors, nested, head, tail) ==
    LET Opt(b, q) == IF b THEN q ELSE <<>>
        e12 == Opt(head, << T(<<>>, 1, 0, 20) >>) \o << T(<<1>>, 2, 1, 2) >>
        e3 == IF nested THEN << S(<<2>>, IF floors = 1 THEN 1 ELSE 2) >>
              ELSE << T(<<2>>, 1, 0, 3) >>
        e45 == << T(<<3>>, 2, 2, 30) >> \o Opt(tail, << T(<<3, 1>>, 1, 1, 4) >>)
        leaf == IF nested
                THEN 1 :> Blk(<<2, 2>>, << T(<<1>>, 1, 0, 10), T(<<3>>, 2, 1, 3) >>,
                              TRUE, 2)
                ELSE [k \in {} |-> <<>>]
        child == IF floors = 1
                 THEN 2 :> Blk(<<2>>, e12 \o e3 \o e45, TRUE, 3)
                 ELSE IF floors = 2
                 THEN 2 :> Blk(<<2>>, e12, FALSE, 3)
                   @@ 3 :> Blk(<<2>>, e3 \o e45, TRUE, 4)
                 ELSE 2 :> Blk(<<2>>, e12, FALSE, 3)
                   @@ 3 :> Blk(<<2>>, e3, FALSE, 4)
                   @@ 4 :> Blk(<<2>>, e45, TRUE, 5)
        root == 5 :> Blk(<<>>, Opt(pre, << T(<<1>>, 1, 1, 40) >>)
                              \o << S(<<2>>, 3) >>
                              \o Opt(post, << T(<<3>>, 4, 0, 5) >>), TRUE, 6)
    IN  leaf @@ child @@ root

TreeIndex(pre, post, floors, nested) ==
    (<<>> :> << 20 + (IF pre \/ post THEN OUTPUT_FLAGS_HAS_TERMS ELSE 0) >>)
    @@ (<<2>> :> IF floors = 1 THEN <<10>>
                 ELSE IF floors = 2 THEN <<11, 1, 2, 3>>
                 ELSE <<11, 2, 2, IF nested THEN 2 ELSE 3, 3, 5>>)
    @@ (IF nested THEN <<2, 2>> :> <<6>> ELSE [k \in {} |-> <<>>])

TreeField(pre, post, floors, nested, head, tail) ==
    LET Flag(b) == IF b THEN "y" ELSE "n"
    IN
    [name |-> "T" \o Flag(pre) \o Flag(post) \o ToString(floors)
                  \o Flag(nested) \o Flag(head) \o Flag(tail),
     blocks |-> TreeBlocks(pre, post, floors, nested, head, tail),
     index |-> TreeIndex(pre, post, floors, nested),
     root_code |-> << 20 + (IF pre \/ post THEN OUTPUT_FLAGS_HAS_TERMS ELSE 0) >>,
     num_terms |-> (IF pre THEN 1 ELSE 0) + (IF post THEN 1 ELSE 0)
                   + (IF head THEN 1 ELSE 0) + (IF tail THEN 1 ELSE 0)
                   + (IF nested THEN 2 ELSE 1) + 2]

AllFields ==
    Fields \cup
    { TreeField(pre, post, floors, nested, head, tail) :
        pre \in BOOLEAN, post \in BOOLEAN, floors \in 1..3,
        nested \in BOOLEAN, head \in BOOLEAN, tail \in BOOLEAN }

\* FieldReader.index is Some: the terms index of the field was loaded
HasIndex(F) == "index" \in DOMAIN F

\* FieldReader::new with index_in = None: the same field, index = None
WithoutIndex(F) ==
    [name |-> F.name, blocks |-> F.blocks, root_code |-> F.root_code,
     num_terms |-> F.num_terms]

\* ------------------------------------------------------------------------
\* The terms index: an FST from block prefixes to block codes
\* ------------------------------------------------------------------------
IndexKeys(F) == DOMAIN F.index

\* the nodes of the automaton: every prefix of a key
IndexNodes(F) ==
    UNION { { SubSeq(k, 1, n) : n \in 0..Len(k) } : k \in IndexKeys(F) }

KeysUnder(F, p) == { k \in IndexKeys(F) : IsPrefix(p, k) }

\* longest common prefix of the outputs of a set of keys
RECURSIVE CommonLen(_, _, _)
CommonLen(F, ks, n) ==
    LET k0 == CHOOSE k \in ks : TRUE
    IN  IF /\ \A k \in ks : Len(F.index[k]) > n
           /\ \A k \in ks : F.index[k][n + 1] = F.index[k0][n + 1]
        THEN CommonLen(F, ks, n + 1)
        ELSE n

\* the output the arcs on the path to node p have emitted: the builder
\* pushes the common prefix of the outputs below a node onto the path
PathOutput(F, p) ==
    IF p = <<>> THEN <<>>
    ELSE LET ks == KeysUnder(F, p)
             k0 == CHOOSE k \in ks : TRUE
         IN  SubSeq(F.index[k0], 1, CommonLen(F, ks, 0))

ArcTo(F, p) ==
    LET parent == IF p = <<>> THEN <<>> ELSE SubSeq(p, 1, Len(p) - 1)
        po == PathOutput(F, p)
    IN  [label |-> IF p = <<>> THEN -1 ELSE p[Len(p)],
         node |-> p,
         output |-> SubSeq(po, Len(PathOutput(F, parent)) + 1, Len(po)),
         final |-> p \in IndexKeys(F),
         nfo |-> IF p \in IndexKeys(F)
                 THEN SubSeq(F.index[p], Len(po) + 1, Len(F.index[p]))
                 ELSE <<>>]

FieldNamed(n) == CHOOSE F \in AllFields : F.name = n

\* the arcs of each field's index, by node
ArcTable ==
    [n \in { F.name : F \in AllFields } |->
        [p \in IndexNodes(FieldNamed(n)) |-> ArcTo(FieldNamed(n), p)]]

root_arc(F) == ArcTable[F.name][<<>>]

\* FSTArc::empty()
EmptyArc ==
    [label |-> 0, node |-> <<>>, output |-> <<>>, final |-> FALSE, nfo |-> <<>>]

NoArc == [label |-> -2]

\* FST::find_target_arc: the arc leaving arc.node with the label, if any
find_target_arc(F, label, arc) ==
    IF Append(arc.node, label) \in DOMAIN ArcTable[F.name]
    THEN ArcTable[F.name][Append(arc.node, label)]
    ELSE NoArc

\* ------------------------------------------------------------------------
\* Frames (SegmentTermsIterFrame)
\* ------------------------------------------------------------------------
EmptyState ==
    [term_block_ord |-> 0, doc_freq |-> 0, total_term_freq |-> -1,
     doc_start_fp |-> 0]

\* SegmentTermsIterFrame::new(ste, ord)
NewFrame(ord) ==
    [ord |-> ord, has_terms |-> FALSE, has_terms_orig |-> FALSE,
     is_floor |-> FALSE, has_arc |-> FALSE,
     fp |-> 0, fp_orig |-> 0, fp_end |-> 0, prefix |-> 0,
     ent_count |-> 0, next_ent |-> 0,
     is_last_in_floor |-> FALSE, is_leaf_block |-> FALSE, last_sub_fp |-> 0,
     floor_data |-> <<>>, floor_pos |-> 0,
     num_follow_floor_blocks |-> 0, next_floor_label |-> 0,
     metadata_upto |-> 0, state |-> EmptyState]

HasSub(ents) == \E k \in 1..Len(ents) : ents[k].sub

IsTermEnt(e) == ~e.sub

TermEnts(blk) == SelectSeq(blk.ents, IsTermEnt)

\* the frame at ord o of the stack
Fr(s, o) == s.stack[o + 1]

WithFr(s, o, f) == [s EXCEPT !.stack[o + 1] = f]

\* SegmentTermsIterFrame::get_term_block_ord
get_term_block_ord(f) ==
    IF f.is_leaf_block THEN f.next_ent ELSE f.state.term_block_ord

\* SegmentTermsIterFrame::set_floor_data: the bytes after the code
set_floor_data(f, data) ==
    [f EXCEPT !.floor_data = SubSeq(data, 2, Len(data)),
              !.num_follow_floor_blocks = data[2],
              !.next_floor_label = data[3],
              !.floor_pos = 2]

\* the header of the block at f.fp, as load_block reads it
BlockHeader(F, f) ==
    LET blk == F.blocks[f.fp]
    IN  [f EXCEPT !.ent_count = Len(blk.ents),
                  !.is_last_in_floor = blk.last,
                  !.is_leaf_block = ~HasSub(blk.ents),
                  !.metadata_upto = 0,
                  !.state = [@ EXCEPT !.term_block_ord = 0],
                  !.next_ent = 0,
                  !.last_sub_fp = -1,
                  !.fp_end = blk.fp_end]

\* SegmentTermsIterFrame::load_block, on the frame at ord o
load_block(F, s, o) ==
    LET f == Fr(s, o)
    IN  IF s.panicked THEN s
        ELSE IF f.next_ent # -1 THEN [s EXCEPT !.input_open = TRUE]
        ELSE IF f.fp \notin DOMAIN F.blocks THEN [s EXCEPT !.panicked = TRUE]
        ELSE [WithFr(s, o, BlockHeader(F, f)) EXCEPT
                 !.input_open = TRUE,
                 !.input_pos = F.blocks[f.fp].fp_end,
                 !.loads = @ + 1]

\* SegmentTermsIterFrame::load_next_floor_block
load_next_floor_block(F, s, o) ==
    LET f == Fr(s, o)
    IN  load_block(F, WithFr(s, o, [f EXCEPT !.fp = f.fp_end, !.next_ent = -1]), o)

\* the floor cursor of a rewound frame: back on the first block of the run
RewindFloor(f) ==
    IF f.is_floor /\ Len(f.floor_data) >= 2
    THEN [f EXCEPT !.fp = f.fp_orig,
                   !.has_terms = f.has_terms_orig,
                   !.num_follow_floor_blocks = f.floor_data[1],
                   !.next_floor_label = f.floor_data[2],
                   !.floor_pos = 2]
    ELSE [f EXCEPT !.fp = f.fp_orig, !.has_terms = f.has_terms_orig]

\* the entry cursor of a rewound frame: before the first entry of its block
RewindBlock(F, f) ==
    IF f.fp \in DOMAIN F.blocks
    THEN BlockHeader(F, f)
    ELSE [f EXCEPT !.next_ent = 0, !.metadata_upto = 0,
                   !.state = [@ EXCEPT !.term_block_ord = 0]]

\* SegmentTermsIterFrame::rewind: back to the first entry of the first
\* block of the floor run, metadata cursor reset
rewind(F, f) == RewindBlock(F, RewindFloor(f))

\* the floor-table walk of scan_to_floor_frame: f is the frame, lbl the
\* byte of the target at the frame's prefix
RECURSIVE FloorWalk(_, _)
FloorWalk(f, lbl) ==
    LET code == f.floor_data[f.floor_pos + 1]
    IN  IF f.num_follow_floor_blocks = 1
        THEN [f EXCEPT !.fp = f.fp_orig + (code \div 2),
                       !.has_terms = (code % 2) # 0,
                       !.is_last_in_floor = TRUE,
                       !.num_follow_floor_blocks = @ - 1,
                       !.floor_pos = @ + 1,
                       !.next_floor_label = 256]
        ELSE IF lbl < f.floor_data[f.floor_pos + 2]
        THEN [f EXCEPT !.fp = f.fp_orig + (code \div 2),
                       !.has_terms = (code % 2) # 0,
                       !.is_last_in_floor = FALSE,
                       !.num_follow_floor_blocks = @ - 1,
                       !.floor_pos = @ + 2,
                       !.next_floor_label = f.floor_data[f.floor_pos + 2]]
        ELSE FloorWalk([f EXCEPT !.fp = f.fp_orig + (code \div 2),
                                 !.has_terms = (code % 2) # 0,
                                 !.is_last_in_floor = FALSE,
                                 !.num_follow_floor_blocks = @ - 1,
                                 !.floor_pos = @ + 2,
                                 !.next_floor_label = f.floor_data[f.floor_pos + 2]],
                       lbl)

\* the end of scan_to_floor_frame: a frame moved to another block of the
\* run is no longer loaded
FloorMoved(f, g) == IF g.fp # f.fp THEN [g EXCEPT !.next_ent = -1] ELSE g

\* SegmentTermsIterFrame::scan_to_floor_frame(target)
scan_to_floor_frame(f, target) ==
    IF ~f.is_floor \/ Len(target) <= f.prefix THEN f
    ELSE IF target[f.prefix + 1] < f.next_floor_label THEN f
    ELSE FloorMoved(f, FloorWalk(f, target[f.prefix + 1]))

\* ------------------------------------------------------------------------
\* The iterator (SegmentTermIteratorInner): frame stack helpers
\* ------------------------------------------------------------------------
\* SegmentTermIteratorInner::new. Four fields are no fields of the struct
\* but a record of the public call under way: lookups (the target positions
\* find_target_arc was called for), loads (the blocks read), was (whether
\* the iterator stood on a stack frame at the entry of the call, its term
\* and its valid_index_prefix), arm (the arm of the seek preamble taken and
\* what it left), tail (what scan_to_term returned to seek_ceil, the term
\* seek_ceil handed to next() and what that next() returned), pops (for
\* every frame next() popped: its fp_orig, the frame popped into as the pop
\* left it, and valid_index_prefix) and pushes (for every call of
\* push_frame_by_fp: its arguments, the frame at the pushed ord before and
\* after, and the code push_frame_by_data decoded, -1 when the call did
\* not come from push_frame_by_data)
NewIterator(F) ==
    [stack |-> <<>>,
     static_frame |-> NewFrame(-1),
     frame_inited |-> FALSE,
     current_frame_ord |-> -1,
     term_exists |-> FALSE,
     target_before_current_length |-> 0,
     valid_index_prefix |-> 0,
     eof |-> FALSE,
     arcs |-> << IF HasIndex(F) THEN root_arc(F) ELSE EmptyArc >>,
     term |-> <<>>,
     term_len |-> 0,
     input_open |-> FALSE,
     input_pos |-> 0,
     panicked |-> FALSE,
     lookups |-> <<>>,
     loads |-> 0,
     was |-> [seeked |-> FALSE, term |-> <<>>, vip |-> 0],
     arm |-> [cmp |-> "none"],
     tail |-> [status |-> "none"],
     pops |-> <<>>,
     pushes |-> <<>>]

\* SegmentTermIteratorInner::term
term(s) == SubSeq(s.term, 1, s.term_len)

\* get_frame numbering the frames it adds from one above their position
get_frame_OffByOne(s, ord) ==
    IF ord >= Len(s.stack)
    THEN [s EXCEPT !.stack = @ \o [k \in 1..(ord + 1 - Len(s.stack)) |->
                                      NewFrame(Len(s.stack) + k)]]
    ELSE s

\* SegmentTermIteratorInner::get_frame: grow the stack up to ord
get_frame(s, ord) ==
    IF ord >= Len(s.stack)
    THEN [s EXCEPT !.stack = @ \o [k \in 1..(ord + 1 - Len(s.stack)) |->
                                      NewFrame(Len(s.stack) + k - 1)]]
    ELSE s
\* push_frame_by_fp keeping every loaded frame where it stands
push_frame_by_fp_NoRewind(F, s, hasArc, fp, length) ==
    LET ord == 1 + s.current_frame_ord
        s1 == get_frame(s, ord)
        f == [Fr(s1, ord) EXCEPT !.has_arc = hasArc]
        g == IF f.fp_orig = fp /\ f.next_ent # -1
             THEN f
             ELSE [f EXCEPT !.next_ent = -1,
                            !.prefix = length,
                            !.state = [@ EXCEPT !.term_block_ord = 0],
                            !.fp = fp,
                            !.fp_orig = fp,
                            !.last_sub_fp = -1]
        s2 == WithFr(s1, ord, g)
    IN  [s2 EXCEPT !.pushes =
            Append(@, [fp |-> fp, length |-> length, ord |-> ord, code |-> -1,
                       tbcl |-> s.target_before_current_length,
                       before |-> f, after |-> Fr(s2, ord),
                       rest_same |->
                           /\ s2.current_frame_ord = s.current_frame_ord
                           /\ Len(s2.stack) = Len(s1.stack)
                           /\ \A o \in (0..(Len(s.stack) - 1)) \ {ord} :
                                  Fr(s2, o) = Fr(s, o)])]

\* push_frame_by_fp that keeps any loaded frame, whatever block it holds
push_frame_by_fp_AnyBlock(F, s, hasArc, fp, length) ==
    LET ord == 1 + s.current_frame_ord
        s1 == get_frame(s, ord)
        f == [Fr(s1, ord) EXCEPT !.has_arc = hasArc]
        g == IF f.next_ent # -1
             THEN IF f.ord > s1.target_before_current_length
                  THEN rewind(F, f)
                  ELSE f
             ELSE [f EXCEPT !.next_ent = -1,
                            !.prefix = length,
                            !.state = [@ EXCEPT !.term_block_ord = 0],
                            !.fp = fp,
                            !.fp_orig = fp,
                            !.last_sub_fp = -1]
        s2 == WithFr(s1, ord, g)
    IN  [s2 EXCEPT !.pushes =
            Append(@, [fp |-> fp, length |-> length, ord |-> ord, code |-> -1,
                       tbcl |-> s.target_before_current_length,
                       before |-> f, after |-> Fr(s2, ord),
                       rest_same |->
                           /\ s2.current_frame_ord = s.current_frame_ord
                           /\ Len(s2.stack) = Len(s1.stack)
                           /\ \A o \in (0..(Len(s.stack) - 1)) \ {ord} :
                                  Fr(s2, o) = Fr(s, o)])]

\* SegmentTermIteratorInner::push_frame_by_fp; the pushed ord is
\* 1 + current_frame_ord, the caller assigns it to current_frame_ord
push_frame_by_fp(F, s, hasArc, fp, length) ==
    LET ord == 1 + s.current_frame_ord
        s1 == get_frame(s, ord)
        f == [Fr(s1, ord) EXCEPT !.has_arc = hasArc]
        g == IF f.fp_orig = fp /\ f.next_ent # -1
             THEN IF f.ord > s1.target_before_current_length
                  THEN rewind(F, f)
                  ELSE f
             ELSE [f EXCEPT !.next_ent = -1,
                            !.prefix = length,
                            !.state = [@ EXCEPT !.term_block_ord = 0],
                            !.fp = fp,
                            !.fp_orig = fp,
                            !.last_sub_fp = -1]
        s2 == WithFr(s1, ord, g)
    IN  [s2 EXCEPT !.pushes =
            Append(@, [fp |-> fp, length |-> length, ord |-> ord, code |-> -1,
                       tbcl |-> s.target_before_current_length,
                       before |-> f, after |-> Fr(s2, ord),
                       rest_same |->
                           /\ s2.current_frame_ord = s.current_frame_ord
                           /\ Len(s2.stack) = Len(s1.stack)
                           /\ \A o \in (0..(Len(s.stack) - 1)) \ {ord} :
                                  Fr(s2, o) = Fr(s, o)])]

\* push_frame_by_data taking the first byte of the data for the whole code
push_frame_by_data_FirstByte(F, s, hasArc, frame_data, length) ==
    IF frame_data = <<>> THEN [s EXCEPT !.panicked = TRUE]
    ELSE
    LET code == frame_data[1]
        \* the bytes of frame_data from the last byte of the code on
        rest == SubSeq(frame_data,
                       CHOOSE n \in 1..Len(frame_data) :
                           /\ frame_data[n] < 128 \/ n = Len(frame_data)
                           /\ \A j \in 1..(n - 1) : frame_data[j] >= 128,
                       Len(frame_data))
        fp_seek == code \div (2 ^ OUTPUT_FLAGS_NUM_BITS)
        ord == 1 + s.current_frame_ord
        s1 == get_frame(s, ord)
        f0 == Fr(s1, ord)
        f1 == [f0 EXCEPT
                 !.has_terms = ((code \div OUTPUT_FLAGS_HAS_TERMS) % 2) # 0,
                 !.has_terms_orig = ((code \div OUTPUT_FLAGS_HAS_TERMS) % 2) # 0,
                 !.is_floor = ((code \div OUTPUT_FLAGS_IS_FLOOR) % 2) # 0]
        f2 == IF f1.is_floor THEN set_floor_data(f1, rest) ELSE f1
        s2 == push_frame_by_fp(F, WithFr(s1, ord, f2), hasArc, fp_seek, length)
    IN  [s2 EXCEPT !.pushes[Len(s2.pushes)] = [@ EXCEPT !.code = code]]

\* SegmentTermIteratorInner::push_frame_by_data: decode the code at the
\* head of frame_data into file pointer and flags, then push
push_frame_by_data(F, s, hasArc, frame_data, length) ==
    IF frame_data = <<>> THEN [s EXCEPT !.panicked = TRUE]
    ELSE
    LET code == read_vlong(frame_data)
        \* the bytes of frame_data from the last byte of the code on
        rest == SubSeq(frame_data,
                       CHOOSE n \in 1..Len(frame_data) :
                           /\ frame_data[n] < 128 \/ n = Len(frame_data)
                           /\ \A j \in 1..(n - 1) : frame_data[j] >= 128,
                       Len(frame_data))
        fp_seek == code \div (2 ^ OUTPUT_FLAGS_NUM_BITS)
        ord == 1 + s.current_frame_ord
        s1 == get_frame(s, ord)
        f0 == Fr(s1, ord)
        f1 == [f0 EXCEPT
                 !.has_terms = ((code \div OUTPUT_FLAGS_HAS_TERMS) % 2) # 0,
                 !.has_terms_orig = ((code \div OUTPUT_FLAGS_HAS_TERMS) % 2) # 0,
                 !.is_floor = ((code \div OUTPUT_FLAGS_IS_FLOOR) % 2) # 0]
        f2 == IF f1.is_floor THEN set_floor_data(f1, rest) ELSE f1
        s2 == push_frame_by_fp(F, WithFr(s1, ord, f2), hasArc, fp_seek, length)
    IN  [s2 EXCEPT !.pushes[Len(s2.pushes)] = [@ EXCEPT !.code = code]]

\* SegmentTermIteratorInner::resize_term followed by the copy of the suffix
\* behind the first prefix bytes of the buffer
SetTerm(s, prefix, suffix) ==
    [s EXCEPT !.term = Resize(Resize(s.term, prefix + Len(suffix)), prefix) \o suffix,
              !.term_len = prefix + Len(suffix)]

\* ------------------------------------------------------------------------
\* Frame operations that read entries and write the iterator's term
\* ------------------------------------------------------------------------
\* the entry the frame at ord o stands on (the last one consumed)
CurEnt(F, f) == F.blocks[f.fp].ents[f.next_ent]

\* SegmentTermsIterFrame::fill_term
fill_term(F, s, o) ==
    LET f == Fr(s, o)
    IN  SetTerm(s, f.prefix, CurEnt(F, f).suffix)

\* consume one entry of a loaded frame: returns the new iterator state and
\* whether the entry is a sub-block
ConsumeEnt(F, s, o) ==
    LET f == Fr(s, o)
        e == F.blocks[f.fp].ents[f.next_ent + 1]
        f1 == [f EXCEPT !.next_ent = @ + 1]
        f2 == IF e.sub
              THEN [f1 EXCEPT !.last_sub_fp = f.fp - e.sub_code]
              ELSE IF f.is_leaf_block THEN f1
              ELSE [f1 EXCEPT !.state = [@ EXCEPT !.term_block_ord = @ + 1]]
        s1 == SetTerm(WithFr(s, o, f2), f.prefix, e.suffix)
    IN  [s |-> [s1 EXCEPT !.term_exists = ~e.sub], sub |-> e.sub]

\* SegmentTermsIterFrame::next: advance next_ent; TRUE when the entry is a
\* sub-block, FALSE when it is a term
RECURSIVE frame_next(_, _, _)
frame_next(F, s, o) ==
    LET f == Fr(s, o)
    IN  IF s.panicked THEN [s |-> s, sub |-> FALSE]
        ELSE IF f.next_ent = -1 \/ f.fp \notin DOMAIN F.blocks
        THEN [s |-> [s EXCEPT !.panicked = TRUE], sub |-> FALSE]
        ELSE IF f.next_ent < f.ent_count THEN ConsumeEnt(F, s, o)
        ELSE IF f.is_leaf_block
        THEN [s |-> [s EXCEPT !.panicked = TRUE], sub |-> FALSE]
        ELSE frame_next(F, load_next_floor_block(F, s, o), o)

\* push the frame of the sub-block at fp below the current frame, make it
\* current and load it
PushSub(F, s, fp, length) ==
    IF s.panicked THEN s
    ELSE load_block(F,
             [push_frame_by_fp(F, s, FALSE, fp, length)
                 EXCEPT !.current_frame_ord = 1 + s.current_frame_ord],
             1 + s.current_frame_ord)

RECURSIVE DescendToTerm(_, _)
\* one turn of the descent: r is what current_frame.next() returned
DescendFrom(F, r) ==
    IF r.s.panicked \/ ~r.sub THEN r.s
    ELSE DescendToTerm(F, PushSub(F, r.s,
                                  Fr(r.s, r.s.current_frame_ord).last_sub_fp,
                                  r.s.term_len))

\* the descent that stops on the first entry, term or sub-block
DescendToTerm_FirstEntry(F, s) == frame_next(F, s, s.current_frame_ord).s

\* the loop "while current_frame.next() is a sub-block: push it and load
\* it", ending on the first term below the current frame
DescendToTerm(F, s) == DescendFrom(F, frame_next(F, s, s.current_frame_ord))

\* comparison of the entry prefix+suffix with the target, as scan_to_term
\* makes it: only the bytes behind the prefix are looked at
EntCmp(f, e, target) ==
    IF Len(target) < f.prefix THEN 1
    ELSE BytesCmp(e.suffix, SubSeq(target, f.prefix + 1, Len(target)))

\* scan_to_term behind an entry greater than the target: the non-exact
\* scan enters the sub-block it stopped on and takes its first term
ScanPast(F, s, o, exact) ==
    IF ~exact /\ ~s.term_exists
    THEN [s |-> DescendToTerm(F, PushSub(F, s, Fr(s, o).last_sub_fp, s.term_len)),
          status |-> "NotFound"]
    ELSE [s |-> s, status |-> "NotFound"]

RECURSIVE ScanLoop(_, _, _, _, _)
\* the decision of scan_to_term on the entry the frame stands on; cmp is
\* the comparison of that entry with the target
ScanEntry(F, s, o, target, exact, cmp) ==
    IF cmp < 0
    THEN IF Fr(s, o).next_ent = Fr(s, o).ent_count
         THEN [s |-> IF exact THEN fill_term(F, s, o) ELSE s, status |-> "End"]
         ELSE ScanLoop(F, s, o, target, exact)
    ELSE IF cmp > 0 THEN ScanPast(F, fill_term(F, s, o), o, exact)
    ELSE [s |-> fill_term(F, s, o), status |-> "Found"]

\* the entry r has consumed is compared; s is the iterator before it
\* (the term buffer is written by fill_term only)
ScanTaken(F, s, r, o, target, exact) ==
    ScanEntry(F,
              [r EXCEPT !.term = s.term,
                        !.term_len = s.term_len,
                        !.term_exists = IF Fr(r, o).is_leaf_block THEN TRUE
                                        ELSE ~CurEnt(F, Fr(r, o)).sub],
              o, target, exact,
              EntCmp(Fr(r, o), CurEnt(F, Fr(r, o)), target))

\* the entry loop of scan_to_term on the frame at ord o
ScanLoop(F, s, o, target, exact) ==
    ScanTaken(F, s, ConsumeEnt(F, s, o).s, o, target, exact)

\* SegmentTermsIterFrame::scan_to_term(target, exact) on the frame at ord o
scan_to_term(F, s, o, target, exact) ==
    LET f == Fr(s, o)
    IN  IF s.panicked THEN [s |-> s, status |-> "End"]
        ELSE IF f.next_ent = -1 \/ f.fp \notin DOMAIN F.blocks
        THEN [s |-> [s EXCEPT !.panicked = TRUE], status |-> "End"]
        ELSE IF f.next_ent = f.ent_count
        THEN LET te == IF f.is_leaf_block THEN TRUE
                       ELSE IF exact /\ f.next_ent > 0 THEN ~CurEnt(F, f).sub
                       ELSE s.term_exists
             IN  [s |-> IF exact /\ f.next_ent > 0
                        THEN fill_term(F, [s EXCEPT !.term_exists = te], o)
                        ELSE [s EXCEPT !.term_exists = te],
                  status |-> "End"]
        ELSE ScanLoop(F, s, o, target, exact)

\* SegmentTermsIterFrame::scan_to_sub_block(sub_fp) on the frame at ord o
RECURSIVE scan_to_sub_block(_, _, _, _)
scan_to_sub_block(F, s, o, sub_fp) ==
    LET f == Fr(s, o)
    IN  IF s.panicked \/ f.last_sub_fp = sub_fp THEN s
        ELSE IF f.next_ent = -1 \/ f.fp \notin DOMAIN F.blocks
                \/ f.next_ent >= f.ent_count
        THEN [s EXCEPT !.panicked = TRUE]
        ELSE LET e == F.blocks[f.fp].ents[f.next_ent + 1]
             IN  IF e.sub
                 THEN IF f.fp - sub_fp = e.sub_code
                      THEN WithFr(s, o, [f EXCEPT !.next_ent = @ + 1,
                                                  !.last_sub_fp = sub_fp])
                      ELSE scan_to_sub_block(F,
                               WithFr(s, o, [f EXCEPT !.next_ent = @ + 1]),
                               o, sub_fp)
                 ELSE scan_to_sub_block(F,
                          WithFr(s, o, [f EXCEPT !.next_ent = @ + 1,
                                                 !.state = [@ EXCEPT
                                                     !.term_block_ord = @ + 1]]),
                          o, sub_fp)

\* SegmentTermsIterFrame::decode_metadata: catch the term state up to the
\* term the frame stands on
RECURSIVE decode_metadata(_, _)
decode_metadata(F, f) ==
    IF f.metadata_upto >= get_term_block_ord(f) THEN
        [f EXCEPT !.state = [@ EXCEPT !.term_block_ord = f.metadata_upto]]
    ELSE IF f.fp \notin DOMAIN F.blocks
            \/ f.metadata_upto >= Len(TermEnts(F.blocks[f.fp]))
    THEN [f EXCEPT !.state = [@ EXCEPT !.doc_freq = -1]]
    ELSE LET e == TermEnts(F.blocks[f.fp])[f.metadata_upto + 1]
             absolute == f.metadata_upto = 0
         IN  decode_metadata(F,
                 [f EXCEPT !.state = [@ EXCEPT
                              !.doc_freq = e.df,
                              !.total_term_freq = e.df + e.ttfd,
                              !.doc_start_fp = IF absolute THEN e.lng ELSE @ + e.lng],
                           !.metadata_upto = @ + 1])

\* ------------------------------------------------------------------------
\* seek_exact and seek_ceil: the common-prefix preamble and the index walk
\* ------------------------------------------------------------------------
\* SegmentTermIteratorInner::current_frame
current_frame(s) ==
    IF s.current_frame_ord >= 0 THEN Fr(s, s.current_frame_ord) ELSE s.static_frame

WithCurrent(s, f) ==
    IF s.current_frame_ord >= 0 THEN WithFr(s, s.current_frame_ord, f)
    ELSE [s EXCEPT !.static_frame = f]

\* add_arc that always pushes the arc at the end of arcs
add_arc_Append(s, arc, index) ==
    [s EXCEPT !.arcs = @ \o << arc >>]

\* SegmentTermIteratorInner::add_arc
add_arc(s, arc, index) ==
    IF index < Len(s.arcs)
    THEN [s EXCEPT !.arcs[index + 1] = arc]
    ELSE [s EXCEPT !.arcs = (@ \o [k \in 1..(index - Len(s.arcs)) |-> EmptyArc])
                            \o << arc >>]

Ord(a, b) == IF a < b THEN "Less" ELSE IF a > b THEN "Greater" ELSE "Equal"

\* first comparison loop of the preamble: walks the cached arcs while the
\* current term and the target agree, up to target_limit
RECURSIVE CmpArcs(_, _, _, _)
CmpArcs(s, target, target_limit, w) ==
    IF w.target_upto >= target_limit THEN w
    ELSE LET c == Ord(s.term[w.target_upto + 1], target[w.target_upto + 1])
         IN  IF c # "Equal" THEN [w EXCEPT !.cmp = c]
             ELSE IF w.target_upto + 2 > Len(s.arcs) THEN [w EXCEPT !.oob = TRUE]
             ELSE LET arc == s.arcs[w.target_upto + 2]
                  IN  CmpArcs(s, target, target_limit,
                          [w EXCEPT !.arc_idx = w.target_upto + 1,
                                    !.output = @ \o arc.output,
                                    !.last_frame_idx = IF arc.final THEN 1 + @ ELSE @,
                                    !.target_upto = @ + 1])

\* the second comparison loop without the final comparison of the lengths
RECURSIVE CmpRest_NoLength(_, _, _, _)
CmpRest_NoLength(s, target, limit, upto) ==
    IF upto >= limit THEN "Equal"
    ELSE LET c == Ord(s.term[upto + 1], target[upto + 1])
         IN  IF c # "Equal" THEN c ELSE CmpRest_NoLength(s, target, limit, upto + 1)

\* second comparison loop: the rest of the term, no arc is touched
RECURSIVE CmpRest(_, _, _, _)
CmpRest(s, target, limit, upto) ==
    IF upto >= limit THEN Ord(s.term_len, Len(target))
    ELSE LET c == Ord(s.term[upto + 1], target[upto + 1])
         IN  IF c # "Equal" THEN c ELSE CmpRest(s, target, limit, upto + 1)

\* the backward arm that keeps the frame where it stands
PreambleBackward_NoRewind(F, sa, ceil, last_frame_idx) ==
    IF last_frame_idx >= Len(sa.stack) THEN [sa EXCEPT !.panicked = TRUE]
    ELSE [sa EXCEPT !.target_before_current_length =
                        IF ceil THEN 0 ELSE last_frame_idx,
                    !.current_frame_ord = last_frame_idx]

\* the backward arm that zeroes target_before_current_length in seek_exact too
PreambleBackward_ZeroLength(F, sa, ceil, last_frame_idx) ==
    IF last_frame_idx >= Len(sa.stack) THEN [sa EXCEPT !.panicked = TRUE]
    ELSE WithFr([sa EXCEPT !.target_before_current_length = 0,
                           !.current_frame_ord = last_frame_idx],
                last_frame_idx, rewind(F, Fr(sa, last_frame_idx)))

\* the "target is before the current term" arm of the preamble: the frame
\* at last_frame_idx becomes current and is rewound
PreambleBackward(F, sa, ceil, last_frame_idx) ==
    IF last_frame_idx >= Len(sa.stack) THEN [sa EXCEPT !.panicked = TRUE]
    ELSE WithFr([sa EXCEPT !.target_before_current_length =
                               IF ceil THEN 0 ELSE last_frame_idx,
                           !.current_frame_ord = last_frame_idx],
                last_frame_idx, rewind(F, Fr(sa, last_frame_idx)))

\* the equal arm that always goes on to the index walk
PreambleEqualDone_Never(sa) == FALSE

\* the "target is the current term" arm of the preamble: the seek returns
\* at once iff the term exists
PreambleEqualDone(sa) == sa.term_exists

\* the arms of the preamble on the comparison cmp of the current term with
\* the target; w is where the first comparison loop stopped
PreambleArm(F, sa, ceil, w, cmp) ==
    LET base == [s |-> sa, arc_idx |-> w.arc_idx, output |-> w.output,
                 target_upto |-> w.target_upto, done |-> FALSE]
        Taken(s1) ==
            [s1 EXCEPT !.arm =
                [cmp |-> cmp,
                 idx |-> w.last_frame_idx,
                 upto |-> w.target_upto,
                 tbcl |-> s1.target_before_current_length,
                 slen |-> Len(s1.stack),
                 frame |-> IF cmp = "Greater" /\ ~s1.panicked
                           THEN Fr(s1, s1.current_frame_ord) ELSE NewFrame(-1)]]
    IN  IF cmp = "Less"
        THEN [base EXCEPT !.s = Taken([sa EXCEPT !.current_frame_ord =
                                                    w.last_frame_idx])]
        ELSE IF cmp = "Greater"
        THEN [base EXCEPT !.s = Taken(PreambleBackward(F, sa, ceil,
                                                       w.last_frame_idx))]
        ELSE [base EXCEPT !.s = Taken(sa), !.done = PreambleEqualDone(sa)]

\* the preamble on an iterator that stands on a stack frame: the state of
\* the last seek is reused for the common prefix
PreambleReuse(F, sa, target, ceil, w) ==
    IF w.oob
    THEN [s |-> [sa EXCEPT !.panicked = TRUE], arc_idx |-> w.arc_idx,
          output |-> w.output, target_upto |-> w.target_upto, done |-> FALSE]
    ELSE PreambleArm(F, sa, ceil, w,
                     IF w.cmp = "Equal"
                     THEN CmpRest(sa, target, Min(Len(target), sa.term_len),
                                  w.target_upto)
                     ELSE w.cmp)

\* the preamble on an iterator that stands on the static frame: the root
\* frame is pushed
PreambleFresh(F, sa) ==
    IF ~HasIndex(F)
    THEN [s |-> [sa EXCEPT !.panicked = TRUE], arc_idx |-> 0, output |-> <<>>,
          target_upto |-> 0, done |-> FALSE]
    ELSE
    [s |-> [push_frame_by_data(F,
                [sa EXCEPT !.target_before_current_length = -1,
                           !.arcs[1] = root_arc(F)],
                TRUE, root_arc(F).output \o root_arc(F).nfo, 0)
              EXCEPT !.current_frame_ord = 1 + sa.current_frame_ord],
     arc_idx |-> 0, output |-> root_arc(F).output,
     target_upto |-> 0, done |-> FALSE]

\* the preamble after the entry of the call
PreambleAt(F, sa, target, ceil) ==
    IF sa.current_frame_ord # sa.static_frame.ord
    THEN PreambleReuse(F, sa, target, ceil,
             CmpArcs(sa, target, Min(Len(target), sa.valid_index_prefix),
                     [arc_idx |-> 0, output |-> sa.arcs[1].output,
                      target_upto |-> 0, last_frame_idx |-> 0,
                      cmp |-> "Equal", oob |-> FALSE]))
    ELSE PreambleFresh(F, sa)

\* the preamble of seek_exact (ceil = FALSE) and of seek_ceil (ceil = TRUE):
\* returns the iterator, the walk position, and done = TRUE when the call
\* returns at once because the target is the current term
Preamble(F, s0, target, ceil) ==
    PreambleAt(F,
               [s0 EXCEPT !.term = IF Len(@) < Len(target)
                                   THEN Resize(@, Len(target)) ELSE @,
                          !.eof = FALSE,
                          !.target_before_current_length = s0.current_frame_ord],
               target, ceil)

RECURSIVE Walk(_, _, _)
\* one step of the index walk: next_arc is what find_target_arc returned
\* for target[target_upto]
WalkArc(F, target, w, next_arc) ==
    LET upto == w.target_upto + 1
        s2 == [w.s EXCEPT !.lookups = Append(@, w.target_upto),
                          !.term[upto] = target[upto]]
    IN  IF next_arc = NoArc
        THEN [w EXCEPT !.s = [w.s EXCEPT !.lookups = Append(@, w.target_upto)],
                       !.miss = TRUE]
        ELSE Walk(F, target,
                  [w EXCEPT
                     !.s = add_arc(
                             IF next_arc.final
                             THEN [push_frame_by_data(F, s2, TRUE,
                                       w.output \o next_arc.output \o next_arc.nfo,
                                       upto)
                                     EXCEPT !.current_frame_ord =
                                                1 + w.s.current_frame_ord]
                             ELSE s2,
                             next_arc, upto),
                     !.output = w.output \o next_arc.output,
                     !.target_upto = upto,
                     !.arc_idx = upto])

\* the index walk behind the reused prefix: follows find_target_arc byte by
\* byte, pushing a frame at every final arc; miss = TRUE when the index has
\* no arc for target[target_upto]
Walk(F, target, w) ==
    IF w.s.panicked \/ w.target_upto >= Len(target) THEN [w EXCEPT !.miss = FALSE]
    ELSE IF ~HasIndex(F)
    THEN [w EXCEPT !.s = [w.s EXCEPT !.panicked = TRUE], !.miss = FALSE]
    ELSE WalkArc(F, target, w,
                 find_target_arc(F, target[w.target_upto + 1],
                                 w.s.arcs[w.arc_idx + 1]))

\* the walk that starts over at the root arc
WalkStart_FromRoot(p) ==
    [s |-> p.s, arc_idx |-> 0, output |-> p.s.arcs[1].output,
     target_upto |-> 0, miss |-> FALSE]

\* where the walk starts behind the preamble p
WalkStart(p) ==
    [s |-> p.s, arc_idx |-> p.arc_idx, output |-> p.output,
     target_upto |-> p.target_upto, miss |-> FALSE]

\* the walk has ended on the frame that holds the target if any frame
\* does: valid_index_prefix is set and the floor block chosen
SeekFrame(s, target) ==
    IF s.panicked THEN s
    ELSE IF s.current_frame_ord < 0 \/ s.current_frame_ord >= Len(s.stack)
    THEN [s EXCEPT !.panicked = TRUE]
    ELSE [s EXCEPT !.valid_index_prefix = current_frame(s).prefix,
                   !.stack[s.current_frame_ord + 1] =
                       scan_to_floor_frame(@, target)]

\* the result of seek_exact from the status of scan_to_term
ExactResult(r) == [s |-> r.s, res |-> (r.status = "Found" /\ ~r.s.panicked)]

\* seek_exact that leaves the term buffer alone on a block without terms
ExactScan_KeepTerm(F, s, target, w) ==
    IF s.panicked THEN [s |-> s, res |-> FALSE]
    ELSE IF ~current_frame(s).has_terms
    THEN [s |-> [s EXCEPT !.term_exists = FALSE], res |-> FALSE]
    ELSE ExactResult(scan_to_term(F, load_block(F, s, s.current_frame_ord),
                                  s.current_frame_ord, target, TRUE))

\* seek_exact on the frame of the target: a block without terms is not
\* loaded, the term buffer keeps what the walk matched
ExactScan(F, s, target, w) ==
    IF s.panicked THEN [s |-> s, res |-> FALSE]
    ELSE IF ~current_frame(s).has_terms
    THEN IF w.miss
         THEN [s |-> [s EXCEPT
                        !.term_exists = FALSE,
                        !.term = SubSeq([@ EXCEPT ![w.target_upto + 1] =
                                           target[w.target_upto + 1]],
                                        1, w.target_upto + 1),
                        !.term_len = w.target_upto + 1],
               res |-> FALSE]
         ELSE [s |-> [s EXCEPT
                        !.term_exists = FALSE,
                        !.term = SubSeq(@, 1, w.target_upto),
                        !.term_len = w.target_upto],
               res |-> FALSE]
    ELSE ExactResult(scan_to_term(F, load_block(F, s, s.current_frame_ord),
                                  s.current_frame_ord, target, TRUE))

\* seek_exact behind the index walk w
ExactWalked(F, target, w) == ExactScan(F, SeekFrame(w.s, target), target, w)

\* seek_exact behind the preamble p
ExactFrom(F, target, p) ==
    IF p.s.panicked THEN [s |-> p.s, res |-> FALSE]
    ELSE IF p.done THEN [s |-> p.s, res |-> TRUE]
    ELSE ExactWalked(F, target, Walk(F, target, WalkStart(p)))

\* SegmentTermIteratorInner::seek_exact: [s, res]
seek_exact(F, s0, target) == ExactFrom(F, target, Preamble(F, s0, target, FALSE))

\* ------------------------------------------------------------------------
\* next
\* ------------------------------------------------------------------------
\* exhaustion that leaves the root frame where it stands
Exhaust_NoRewind(F, s) ==
    [s EXCEPT !.eof = TRUE,
              !.term = <<>>,
              !.term_len = 0,
              !.valid_index_prefix = 0,
              !.term_exists = FALSE]

\* the root block is exhausted: the state next leaves when it returns None
Exhaust(F, s) ==
    WithFr([s EXCEPT !.eof = TRUE,
                     !.term = <<>>,
                     !.term_len = 0,
                     !.valid_index_prefix = 0,
                     !.term_exists = FALSE],
           0, rewind(F, Fr(s, 0)))

\* the pop that never scans the frame popped into
PopRescan_Never(F, s, o, last_fp) == s

\* the frame at ord o has become current by a pop: when it is not loaded
\* or does not stand behind the sub-block left, it is scanned again
PopRescan(F, s, o, last_fp) ==
    IF Fr(s, o).next_ent = -1 \/ Fr(s, o).last_sub_fp # last_fp
    THEN scan_to_sub_block(F,
             load_block(F, WithFr(s, o, scan_to_floor_frame(Fr(s, o), term(s))), o),
             o, last_fp)
    ELSE s

\* the seek state is invalid beyond the depth of the frame popped into
PopClamp(s, last_fp) ==
    [s EXCEPT !.valid_index_prefix = Min(@, current_frame(s).prefix),
              !.pops = Append(@, [child |-> last_fp,
                                  parent |-> current_frame(s),
                                  vip |-> Min(s.valid_index_prefix,
                                              current_frame(s).prefix)])]

\* the pop loop that never moves on to the next floor block
RECURSIVE PopFinished_NoFloor(_, _)
PopFinished_NoFloor(F, s) ==
    LET cur == s.current_frame_ord
        f == Fr(s, cur)
    IN  IF s.panicked \/ f.next_ent # f.ent_count THEN [s |-> s, none |-> FALSE]
        ELSE IF cur = 0
        THEN [s |-> Exhaust(F, s), none |-> TRUE]
        ELSE PopFinished_NoFloor(F,
                 PopClamp(PopRescan(F, [s EXCEPT !.current_frame_ord = cur - 1],
                                    cur - 1, f.fp_orig),
                          f.fp_orig))

\* "Pop finished blocks" loop of next: [s, none]; none = TRUE when the root
\* block is exhausted and next returns None
RECURSIVE PopFinished(_, _)
PopFinished(F, s) ==
    LET cur == s.current_frame_ord
        f == Fr(s, cur)
    IN  IF s.panicked \/ f.next_ent # f.ent_count THEN [s |-> s, none |-> FALSE]
        ELSE IF ~f.is_last_in_floor
        THEN [s |-> load_next_floor_block(F, s, cur), none |-> FALSE]
        ELSE IF cur = 0
        THEN [s |-> Exhaust(F, s), none |-> TRUE]
        ELSE PopFinished(F,
                 PopClamp(PopRescan(F, [s EXCEPT !.current_frame_ord = cur - 1],
                                    cur - 1, f.fp_orig),
                          f.fp_orig))

\* next on an iterator that never loaded a block: the root frame is pushed
\* and loaded
NextRoot(F, s) ==
    IF ~s.input_open
    THEN load_block(F,
             [push_frame_by_data(F, s, HasIndex(F), F.root_code, 0)
                 EXCEPT !.current_frame_ord = 1 + s.current_frame_ord],
             1 + s.current_frame_ord)
    ELSE s

\* next on an iterator that stands on the static frame: seek_exact to the
\* current term brings the stack up to date
NextCatchUp(F, s) ==
    IF s.current_frame_ord = s.static_frame.ord
    THEN seek_exact(F, s, term(s)).s
    ELSE s

\* the result of next from the state the descent has left
NextResult(s) == [s |-> s, res |-> IF s.panicked THEN <<>> ELSE << term(s) >>]

\* next behind the pop loop
NextDescend(F, p) ==
    IF p.s.panicked \/ p.none THEN [s |-> p.s, res |-> <<>>]
    ELSE NextResult(DescendToTerm(F, p.s))

\* next on the state the catch-up has left
NextPop(F, s) ==
    IF s.panicked THEN [s |-> s, res |-> <<>>]
    ELSE IF s.current_frame_ord < 0 \/ s.current_frame_ord >= Len(s.stack)
    THEN [s |-> [s EXCEPT !.panicked = TRUE], res |-> <<>>]
    ELSE NextDescend(F, PopFinished(F, s))

\* next without the assertion on eof
NextFrom_NoAssert(F, s) ==
    IF s.panicked THEN [s |-> s, res |-> <<>>]
    ELSE NextPop(F, NextCatchUp(F,
             [s EXCEPT !.target_before_current_length = s.current_frame_ord]))

\* next behind the push of the root frame: assert!(!eof)
NextFrom(F, s) ==
    IF s.panicked THEN [s |-> s, res |-> <<>>]
    ELSE IF s.eof THEN [s |-> [s EXCEPT !.panicked = TRUE], res |-> <<>>]
    ELSE NextPop(F, NextCatchUp(F,
             [s EXCEPT !.target_before_current_length = s.current_frame_ord]))

\* SegmentTermIteratorInner::next: [s, res]; res is <<term>> for Some(term)
\* and <<>> for None
next(F, s0) ==
    NextFrom(F, NextRoot(F, [s0 EXCEPT !.frame_inited = TRUE,
                                       !.static_frame = [@ EXCEPT !.ord = -1]]))

\* ------------------------------------------------------------------------
\* seek_ceil
\* ------------------------------------------------------------------------
\* the tail that answers NotFound whatever next() returned
CeilNext_AlwaysNotFound(n) ==
    [s |-> [n.s EXCEPT !.tail = [@ EXCEPT !.inner = n.res]], res |-> "NotFound"]

\* the result of seek_ceil from what the next() behind the end of a block
\* returned
CeilNext(n) ==
    [s |-> [n.s EXCEPT !.tail = [@ EXCEPT !.inner = n.res]],
     res |-> IF n.res # <<>> THEN "NotFound" ELSE "End"]

\* the tail that reports the end of the block as the end of the field
CeilTail_NoNext(F, s, target, status) ==
    [s |-> [s EXCEPT !.tail = [status |-> status]], res |-> status]

\* the tail of seek_ceil after scan_to_term: on End the term buffer takes
\* the target and next() decides between NotFound and End
CeilTail(F, s, target, status) ==
    IF status = "End"
    THEN CeilNext(next(F, [s EXCEPT !.term = target,
                                    !.term_len = Len(target),
                                    !.term_exists = FALSE,
                                    !.tail = [status |-> status,
                                              term |-> target,
                                              exists |-> FALSE,
                                              inner |-> <<>>]]))
    ELSE [s |-> [s EXCEPT !.tail = [status |-> status]], res |-> status]

\* seek_ceil behind scan_to_term
CeilScanned(F, target, r) ==
    IF r.s.panicked THEN [s |-> r.s, res |-> "End"]
    ELSE CeilTail(F, r.s, target, r.status)

\* seek_ceil on the frame of the target
CeilScan(F, s, target) ==
    CeilScanned(F, target,
                scan_to_term(F, load_block(F, s, s.current_frame_ord),
                             s.current_frame_ord, target, FALSE))

\* seek_ceil behind the preamble p
CeilFrom(F, target, p) ==
    IF p.s.panicked THEN [s |-> p.s, res |-> "End"]
    ELSE IF p.done THEN [s |-> p.s, res |-> "Found"]
    ELSE CeilScan(F, SeekFrame(Walk(F, target, WalkStart(p)).s, target), target)

\* seek_ceil that goes on without a look at the index
seek_ceil_NoIndexCheck(F, s0, target) ==
    CeilFrom(F, target, Preamble(F, s0, target, TRUE))

\* SegmentTermIteratorInner::seek_ceil: [s, res], res one of
\* "Found", "NotFound", "End", or the error "IllegalState" when the terms
\* index of the field was not loaded
seek_ceil(F, s0, target) ==
    IF ~HasIndex(F) THEN [s |-> s0, res |-> "IllegalState"]
    ELSE CeilFrom(F, target, Preamble(F, s0, target, TRUE))

\* seek_exact_state that takes over the state whatever term the iterator
\* stands on
seek_exact_state_Always(s0, text, state) ==
    LET s1 == [s0 EXCEPT !.eof = FALSE]
        sf == [s1.static_frame EXCEPT !.state = state]
    IN  [s1 EXCEPT !.current_frame_ord = s1.static_frame.ord,
                   !.static_frame =
                       [sf EXCEPT !.metadata_upto = get_term_block_ord(sf)],
                   !.term = text,
                   !.term_len = Len(text),
                   !.valid_index_prefix = 0]

\* ------------------------------------------------------------------------
\* seek_exact_state and the metadata accessors
\* ------------------------------------------------------------------------
\* seek_exact_state that leaves the metadata cursor of the static frame
seek_exact_state_NoUpto(s0, text, state) ==
    LET s1 == [s0 EXCEPT !.eof = FALSE]
    IN  IF text # term(s1) \/ ~s1.term_exists
        THEN [s1 EXCEPT !.current_frame_ord = s1.static_frame.ord,
                        !.static_frame = [@ EXCEPT !.state = state],
                        !.term = text,
                        !.term_len = Len(text),
                        !.valid_index_prefix = 0]
        ELSE s1

\* SegmentTermIteratorInner::seek_exact_state
seek_exact_state(s0, text, state) ==
    LET s1 == [s0 EXCEPT !.eof = FALSE]
    IN  IF text # term(s1) \/ ~s1.term_exists
        THEN LET sf == [s1.static_frame EXCEPT !.state = state]
             IN  [s1 EXCEPT !.current_frame_ord = s1.static_frame.ord,
                            !.static_frame =
                                [sf EXCEPT !.metadata_upto = get_term_block_ord(sf)],
                            !.term = text,
                            !.term_len = Len(text),
                            !.valid_index_prefix = 0]
        ELSE s1

\* SegmentTermIteratorInner::seek_exact_ord: unimplemented!() unwinds, the
\* call never returns a value
seek_exact_ord(s0, ord) == [s0 EXCEPT !.panicked = TRUE]

\* the current frame replaced by f, and the copy of its term state
StateOf(s, f) == [s |-> WithCurrent(s, f), res |-> f.state]

\* SegmentTermIteratorInner::term_state: decode_metadata on the current
\* frame, then a copy of its state: [s, res]
term_state(F, s) == StateOf(s, decode_metadata(F, current_frame(s)))

\* SegmentTermIteratorInner::doc_freq
doc_freq(F, s) == term_state(F, s).res.doc_freq

\* SegmentTermIteratorInner::total_term_freq
total_term_freq(F, s) == term_state(F, s).res.total_term_freq

\* ------------------------------------------------------------------------
\* The terms of a field and the seek targets
\* ------------------------------------------------------------------------
\* the terms the blocks of the terms file hold
TermsOf(F) ==
    { F.blocks[fp].prefix \o F.blocks[fp].ents[k].suffix :
        <<fp, k>> \in { x \in (DOMAIN F.blocks) \X (1..4) :
                          /\ x[2] <= Len(F.blocks[x[1]].ents)
                          /\ ~F.blocks[x[1]].ents[x[2]].sub } }

RECURSIVE SeqsUpTo(_)
SeqsUpTo(n) ==
    IF n = 0 THEN { <<>> }
    ELSE LET prev == SeqsUpTo(n - 1)
         IN  prev \cup { Append(q, b) : q \in { x \in prev : Len(x) = n - 1 },
                                        b \in Bytes }

TermTable == [n \in { F.name : F \in Fields } |-> TermsOf(FieldNamed(n))]

\* seek targets: every byte string up to MaxTargetLen and every term
TargetTable ==
    [n \in { F.name : F \in Fields } |-> SeqsUpTo(MaxTargetLen) \cup TermTable[n]]

Targets(F) == TargetTable[F.name]

\* the state a caller saves at term u: term_state() after seek_exact(u) on
\* an iterator of its own
SavedTable ==
    [n \in { F.name : F \in Fields } |->
        [u \in TermTable[n] |->
            term_state(FieldNamed(n),
                       seek_exact(FieldNamed(n), NewIterator(FieldNamed(n)), u).s).res]]

SavedState(F, u) == SavedTable[F.name][u]

\* ------------------------------------------------------------------------
\* Block statistics: Stats and compute_block_stats
\* ------------------------------------------------------------------------
\* Stats::new; the byte totals of the suffix, stats and metadata sections
\* of the blocks are left out, the blocks here have no byte layout
Stats_new ==
    [total_term_count |-> 0,
     total_term_bytes |-> 0,
     non_floor_block_count |-> 0,
     floor_block_count |-> 0,
     floor_sub_block_count |-> 0,
     mixed_block_count |-> 0,
     terms_only_block_count |-> 0,
     sub_blocks_only_block_count |-> 0,
     total_block_count |-> 0,
     block_count_by_prefix_len |-> [k \in 1..10 |-> 0],
     start_block_count |-> 0,
     end_block_count |-> 0]

\* Stats::start_block
start_block(st, frame, is_floor) ==
    [st EXCEPT
       !.total_block_count = @ + 1,
       !.floor_block_count =
           IF is_floor /\ frame.fp = frame.fp_orig THEN @ + 1 ELSE @,
       !.floor_sub_block_count = IF is_floor THEN @ + 1 ELSE @,
       !.non_floor_block_count = IF is_floor THEN @ ELSE @ + 1,
       !.block_count_by_prefix_len =
           [Resize(@, IF Len(@) <= frame.prefix THEN frame.prefix + 1 ELSE Len(@))
              EXCEPT ![frame.prefix + 1] = @ + 1],
       !.start_block_count = @ + 1]

\* end_block that does not count a block of sub-blocks only
end_block_NoSubOnly(st, frame) ==
    LET term_count == IF frame.is_leaf_block THEN frame.ent_count
                      ELSE frame.state.term_block_ord
        sub_block_count == frame.ent_count - term_count
    IN  IF term_count = 0 /\ sub_block_count > 0
        THEN [st |-> [st EXCEPT !.end_block_count = @ + 1], err |-> "none"]
        ELSE IF term_count > 0 /\ sub_block_count = 0
        THEN [st |-> [st EXCEPT !.terms_only_block_count = @ + 1,
                                !.end_block_count = @ + 1],
              err |-> "none"]
        ELSE IF term_count > 0 /\ sub_block_count > 0
        THEN [st |-> [st EXCEPT !.mixed_block_count = @ + 1,
                                !.end_block_count = @ + 1],
              err |-> "none"]
        ELSE [st |-> st, err |-> "IllegalState"]

\* Stats::end_block: [st, err]
end_block(st, frame) ==
    LET term_count == IF frame.is_leaf_block THEN frame.ent_count
                      ELSE frame.state.term_block_ord
        sub_block_count == frame.ent_count - term_count
    IN  IF term_count = 0 /\ sub_block_count > 0
        THEN [st |-> [st EXCEPT !.sub_blocks_only_block_count = @ + 1,
                                !.end_block_count = @ + 1],
              err |-> "none"]
        ELSE IF term_count > 0 /\ sub_block_count = 0
        THEN [st |-> [st EXCEPT !.terms_only_block_count = @ + 1,
                                !.end_block_count = @ + 1],
              err |-> "none"]
        ELSE IF term_count > 0 /\ sub_block_count > 0
        THEN [st |-> [st EXCEPT !.mixed_block_count = @ + 1,
                                !.end_block_count = @ + 1],
              err |-> "none"]
        ELSE [st |-> st, err |-> "IllegalState"]

\* Stats::term
Stats_term(st, t) == [st EXCEPT !.total_term_bytes = @ + Len(t)]

\* compute_block_stats up to the loop: the root frame is pushed from the
\* root code, loaded and counted as a started block
StatsRootPushed(F, s) ==
    load_block(F,
        [WithFr(s, 0, [Fr(s, 0) EXCEPT !.fp_orig = Fr(s, 0).fp])
           EXCEPT !.current_frame_ord = 0],
        0)

StatsRoot(F, s0) ==
    IF s0.panicked THEN s0
    ELSE StatsRootPushed(F,
             push_frame_by_data(F, [s0 EXCEPT !.current_frame_ord = -1],
                                HasIndex(F), F.root_code, 0))

StatsBegin(s) ==
    IF s.panicked THEN [s |-> s, st |-> Stats_new, err |-> "none"]
    ELSE [s |-> [s EXCEPT !.valid_index_prefix = 0],
          st |-> start_block(Stats_new, current_frame(s),
                             ~current_frame(s).is_last_in_floor),
          err |-> "none"]

RECURSIVE AllTerm(_, _)
RECURSIVE StatsDescend(_, _, _)
RECURSIVE StatsEnd(_, _)
\* the inner loop behind the push and load of a sub-block: the block is
\* counted as started, then current_frame().next() again
StatsPushed(F, w, s) ==
    IF s.panicked THEN [w EXCEPT !.s = s]
    ELSE StatsDescend(F,
             [w EXCEPT !.s = s,
                       !.st = start_block(w.st, current_frame(s),
                                          ~current_frame(s).is_last_in_floor)],
             frame_next(F, s, s.current_frame_ord))

\* one turn of the inner loop: r is what current_frame().next() returned;
\* a sub-block is pushed and loaded, a term is counted and ends the loop
StatsDescend(F, w, r) ==
    IF r.s.panicked THEN [w EXCEPT !.s = r.s]
    ELSE IF r.sub
    THEN StatsPushed(F, w,
             PushSub(F, r.s, Fr(r.s, r.s.current_frame_ord).last_sub_fp,
                     r.s.term_len))
    ELSE AllTerm(F, [w EXCEPT !.s = r.s, !.st = Stats_term(w.st, term(r.s))])

\* the inner loop
StatsInner(F, w) == StatsDescend(F, w, frame_next(F, w.s, w.s.current_frame_ord))

\* the while loop behind load_next_floor_block: the block is counted as a
\* started floor block and the loop is left
StatsFloor(F, w, s) ==
    IF s.panicked THEN [w EXCEPT !.s = s]
    ELSE StatsInner(F, [w EXCEPT !.s = s,
                                 !.st = start_block(w.st, current_frame(s), TRUE)])

\* one turn of the while loop behind end_block (e): the next floor block is
\* loaded, or the walk ends on the root frame, or the frame is popped
StatsEnded(F, w, e) ==
    IF e.err # "none" THEN [w EXCEPT !.st = e.st, !.err = e.err]
    ELSE IF ~current_frame(w.s).is_last_in_floor
    THEN StatsFloor(F, [w EXCEPT !.st = e.st],
                    load_next_floor_block(F, w.s, w.s.current_frame_ord))
    ELSE IF current_frame(w.s).ord = 0
    THEN [w EXCEPT !.st = e.st]
    ELSE StatsEnd(F, [w EXCEPT !.st = e.st,
                               !.s = [w.s EXCEPT !.current_frame_ord =
                                                     current_frame(w.s).ord - 1]])

\* the while loop "while next_ent == ent_count": next_ent and ent_count are
\* locals read once before the loop, so a loop that is entered goes on
\* until one of its breaks
StatsEnd(F, w) == StatsEnded(F, w, end_block(w.st, current_frame(w.s)))

\* one turn of the loop 'all_term
AllTerm(F, w) ==
    IF w.s.panicked \/ w.err # "none" THEN w
    ELSE IF current_frame(w.s).next_ent = current_frame(w.s).ent_count
    THEN StatsEnd(F, w)
    ELSE StatsInner(F, w)

\* compute_block_stats behind the loop: the root frame pushed again is
\* rewound and loaded
StatsRewound(F, s) ==
    load_block(F, WithFr(s, 0, rewind(F, Fr(s, 0))), 0)

\* compute_block_stats behind the loop: Stats::finish (its three
\* debug_assert! are no code in a release build), then the root frame is
\* pushed again and the term is cleared
StatsTail(F, w) ==
    IF w.s.panicked \/ w.err # "none" THEN w
    ELSE [s |-> [StatsRewound(F,
                     [push_frame_by_data(F, [w.s EXCEPT !.current_frame_ord = -1],
                                         HasIndex(F), F.root_code, 0)
                        EXCEPT !.current_frame_ord = 0])
                   EXCEPT !.valid_index_prefix = 0,
                          !.term = <<>>,
                          !.term_len = 0],
          st |-> w.st,
          err |-> "none"]

\* SegmentTermIteratorInner::compute_block_stats: [s, st, err]
compute_block_stats(F, s0) == StatsTail(F, AllTerm(F, StatsBegin(StatsRoot(F, s0))))

\* ------------------------------------------------------------------------
\* Opening a segment: BlockTreeTermsReader::new and the Fields interface
\* ------------------------------------------------------------------------
VERSION_START == 0

VERSION_AUTO_PREFIX_TERMS == 1

VERSION_AUTO_PREFIX_TERMS_REMOVED == 3

VERSION_CURRENT == VERSION_AUTO_PREFIX_TERMS_REMOVED

\* core::codec::blocktree::MAX_LONGS_SIZE
MAX_LONGS_SIZE == 3

\* the fields of a reader under construction: none yet
NoFields == [n \in {} |-> <<>>]

\* the any_auto_prefix_terms flag that skips the range test on the marker
any_auto_prefix_terms_AnyByte(version, marker) ==
    IF version < VERSION_AUTO_PREFIX_TERMS
       \/ version >= VERSION_AUTO_PREFIX_TERMS_REMOVED
    THEN [err |-> "none", val |-> FALSE]
    ELSE IF version = VERSION_AUTO_PREFIX_TERMS
    THEN [err |-> "none", val |-> TRUE]
    ELSE [err |-> "none", val |-> marker # 0]

\* BlockTreeTermsReader::new, the version marker: marker is the byte that
\* follows the header of the terms file
any_auto_prefix_terms(version, marker) ==
    IF version < VERSION_AUTO_PREFIX_TERMS
       \/ version >= VERSION_AUTO_PREFIX_TERMS_REMOVED
    THEN [err |-> "none", val |-> FALSE]
    ELSE IF version = VERSION_AUTO_PREFIX_TERMS
    THEN [err |-> "none", val |-> TRUE]
    ELSE IF marker = 0 THEN [err |-> "none", val |-> FALSE]
    ELSE IF marker = 1 THEN [err |-> "none", val |-> TRUE]
    ELSE [err |-> "CorruptIndex", val |-> FALSE]

\* FieldReader::new
FieldReader_new(field_info, num_terms, root_code, sum_total_term_freq, sum_doc_freq, doc_count, index_start_fp, longs_size, min_term, max_term) ==
    [field_info |-> field_info,
     num_terms |-> num_terms,
     root_code |-> root_code,
     sum_total_term_freq |-> sum_total_term_freq,
     sum_doc_freq |-> sum_doc_freq,
     doc_count |-> doc_count,
     index_start_fp |-> index_start_fp,
     root_block_fp |-> read_vlong(root_code) \div (2 ^ OUTPUT_FLAGS_NUM_BITS),
     min_term |-> min_term,
     max_term |-> max_term,
     longs_size |-> longs_size]

\* the loop body of BlockTreeTermsReader::new that inserts under a name
\* already present
InsertField_NoDuplicateCheck(fields, field_info, e, sum_total_term_freq) ==
    [err |-> "none",
     fields |->
        (field_info.name :>
            FieldReader_new(field_info, e.num_terms, e.root_code,
                            sum_total_term_freq, e.sum_doc_freq, e.doc_count,
                            e.index_start_fp, e.longs_size,
                            e.min_term, e.max_term))
        @@ fields]

\* the loop body of BlockTreeTermsReader::new behind the checks of the
\* counts: a name met before is corrupt, else the field reader is built and
\* inserted
InsertField(fields, field_info, e, sum_total_term_freq) ==
    IF field_info.name \in DOMAIN fields
    THEN [err |-> "CorruptIndex", fields |-> fields]
    ELSE [err |-> "none",
          fields |->
             (field_info.name :>
                 FieldReader_new(field_info, e.num_terms, e.root_code,
                                 sum_total_term_freq, e.sum_doc_freq,
                                 e.doc_count, e.index_start_fp, e.longs_size,
                                 e.min_term, e.max_term))
             @@ fields]

\* the checks of the counts that let sum_doc_freq fall below doc_count
CheckCounts_NoSumDocFreq(seg, fields, field_info, e, sum_total_term_freq) ==
    IF e.longs_size < 0
    THEN [err |-> "CorruptIndex", fields |-> fields]
    ELSE IF e.doc_count < 0 \/ e.doc_count > seg.max_doc
    THEN [err |-> "CorruptIndex", fields |-> fields]
    ELSE IF sum_total_term_freq # -1 /\ sum_total_term_freq < e.sum_doc_freq
    THEN [err |-> "CorruptIndex", fields |-> fields]
    ELSE InsertField(fields, field_info, e, sum_total_term_freq)

\* the loop body of BlockTreeTermsReader::new behind the field info: the
\* checks of longs_size, doc_count, sum_doc_freq and sum_total_term_freq
CheckCounts(seg, fields, field_info, e, sum_total_term_freq) ==
    IF e.longs_size < 0
    THEN [err |-> "CorruptIndex", fields |-> fields]
    ELSE IF e.doc_count < 0 \/ e.doc_count > seg.max_doc
    THEN [err |-> "CorruptIndex", fields |-> fields]
    ELSE IF e.sum_doc_freq < e.doc_count
    THEN [err |-> "CorruptIndex", fields |-> fields]
    ELSE IF sum_total_term_freq # -1 /\ sum_total_term_freq < e.sum_doc_freq
    THEN [err |-> "CorruptIndex", fields |-> fields]
    ELSE InsertField(fields, field_info, e, sum_total_term_freq)

\* the turn of the loop that takes an unknown field number for field 1
ReadField_AnyNumber(seg, fields, e) ==
    IF e.num_terms <= 0
    THEN [err |-> "CorruptIndex", fields |-> fields]
    ELSE IF e.num_bytes < 0
    THEN [err |-> "CorruptIndex", fields |-> fields]
    ELSE IF e.field \notin DOMAIN seg.field_infos
    THEN CheckCounts(seg, fields, seg.field_infos[1], e, e.sum_total_term_freq)
    ELSE CheckCounts(seg, fields, seg.field_infos[e.field], e,
                     IF seg.field_infos[e.field].index_options = "Docs"
                     THEN -1 ELSE e.sum_total_term_freq)

\* one turn of the loop of BlockTreeTermsReader::new over the directory
\* entry e: sum_total_term_freq is in the file only for fields that index
\* more than documents
ReadField(seg, fields, e) ==
    IF e.num_terms <= 0
    THEN [err |-> "CorruptIndex", fields |-> fields]
    ELSE IF e.num_bytes < 0
    THEN [err |-> "CorruptIndex", fields |-> fields]
    ELSE IF e.field \notin DOMAIN seg.field_infos
    THEN [err |-> "CorruptIndex", fields |-> fields]
    ELSE CheckCounts(seg, fields, seg.field_infos[e.field], e,
                     IF seg.field_infos[e.field].index_options = "Docs"
                     THEN -1 ELSE e.sum_total_term_freq)

\* the loop of BlockTreeTermsReader::new from entry k on; r is what the
\* entries before have left
RECURSIVE ReadFields(_, _, _)
ReadFields(seg, k, r) ==
    IF r.err # "none" \/ k > seg.num_fields THEN r
    ELSE ReadFields(seg, k + 1, ReadField(seg, r.fields, seg.entries[k]))

\* the reader new returns behind the directory
OpenedReader(seg, marker, r) ==
    IF r.err # "none" THEN [status |-> r.err]
    ELSE [status |-> "open",
          version |-> seg.version,
          any_auto_prefix_terms |-> marker.val,
          fields |-> r.fields]

\* new behind the version marker
OpenDirectory(seg, marker) ==
    IF marker.err # "none" THEN [status |-> marker.err]
    ELSE IF seg.num_fields < 0 THEN [status |-> "CorruptIndex"]
    ELSE OpenedReader(seg, marker,
                      ReadFields(seg, 1, [err |-> "none", fields |-> NoFields]))

\* BlockTreeTermsReader::new: the reader, or the kind of the error. The
\* checksum retrieve_checksum reads from the footer is dropped, and no
\* checksum of the file is computed (checksum_entire_file is commented out),
\* so seg.checksum is read nowhere
BlockTreeTermsReader_new(seg) ==
    OpenDirectory(seg, any_auto_prefix_terms(seg.version, seg.marker))

\* the order of the keys of the BTreeMap
NameOrder == << "a", "b", "x" >>

\* Fields::fields: the keys of the map, in order
Fields_fields(r) == SelectSeq(NameOrder, LAMBDA n : n \in DOMAIN r.fields)

\* terms that answers with the first field reader for every name
Fields_terms_Any(r, name) ==
    IF DOMAIN r.fields # {}
    THEN [err |-> "none", some |-> TRUE,
          reader |-> r.fields[CHOOSE n \in DOMAIN r.fields : TRUE]]
    ELSE [err |-> "none", some |-> FALSE, reader |-> <<>>]

\* Fields::terms: Ok(Some(field reader)) or Ok(None)
Fields_terms(r, name) ==
    IF name \in DOMAIN r.fields
    THEN [err |-> "none", some |-> TRUE, reader |-> r.fields[name]]
    ELSE [err |-> "none", some |-> FALSE, reader |-> <<>>]

\* Fields::size
Fields_size(r) == Cardinality(DOMAIN r.fields)

\* ------------------------------------------------------------------------
\* The segments handed to BlockTreeTermsReader::new
\* ------------------------------------------------------------------------
\* SegmentReadState: field 0 indexes documents only, field 1 frequencies
\* too, no other field number is known
FieldInfos ==
    (0 :> [name |-> "a", index_options |-> "Docs"])
    @@ (1 :> [name |-> "b", index_options |-> "DocsAndFreqs"])

\* a directory entry of the terms file
Entry(field, num_terms, root_code, sttf, sdf, dc, ls) ==
    [field |-> field, num_terms |-> num_terms,
     num_bytes |-> Len(root_code), root_code |-> root_code,
     sum_total_term_freq |-> sttf, sum_doc_freq |-> sdf,
     doc_count |-> dc, longs_size |-> ls,
     min_term |-> <<1>>, max_term |-> <<3>>, index_start_fp |-> 1 + field]

\* well-formed entries of the two known fields
PlainEntries ==
    { Entry(0, 2, <<18>>, -1, 2, 1, 1), Entry(1, 3, <<148, 1>>, 4, 2, 1, 0) }

\* entries over every combination of small counts, and entries with a
\* negative root code length
VariedEntries ==
    { Entry(f, nt, <<18>>, sttf, sdf, dc, ls) :
        f \in {0, 2}, nt \in {0, 1}, sttf \in {-1}, sdf \in 0..2,
        dc \in -1..2, ls \in {-1, 0, MAX_LONGS_SIZE, MAX_LONGS_SIZE + 1} }
    \cup
    { Entry(1, nt, <<148, 1>>, sttf, sdf, dc, ls) :
        nt \in {0, 1}, sttf \in -1..2, sdf \in 0..2,
        dc \in -1..2, ls \in {-1, 0, MAX_LONGS_SIZE, MAX_LONGS_SIZE + 1} }
    \cup
    { [e EXCEPT !.num_bytes = -1] : e \in PlainEntries }

\* directories of up to MaxEntries entries: one of them varied, the others
\* plain
Directories ==
    { <<>> } \cup
    UNION { { [k \in 1..n |-> IF k = pos THEN v ELSE ps[k]] :
                v \in VariedEntries, ps \in [1..n -> PlainEntries],
                pos \in 1..n } : n \in 1..MaxEntries }

\* the header version and, for version 2, the byte behind the header
Markers ==
    { [version |-> v, marker |-> 0] :
        v \in (VERSION_START..VERSION_CURRENT) \ {2} }
    \cup { [version |-> 2, marker |-> b] : b \in {0, 1, 2, 255} }

\* the checksum the writer leaves in the footer of the terms file for the
\* directory d: every byte of the directory counts, so that the checksum of
\* a directory with one byte changed is another one
RECURSIVE DirChecksum(_)
DirChecksum(d) ==
    LET RECURSIVE SumBytes(_)
        SumBytes(q) == IF q = <<>> THEN 0 ELSE q[1] + SumBytes(Tail(q))
    IN
    IF d = <<>> THEN 0
    ELSE (d[1].field + d[1].num_terms + d[1].num_bytes + SumBytes(d[1].root_code)
          + d[1].sum_total_term_freq + d[1].sum_doc_freq + d[1].doc_count
          + d[1].longs_size + SumBytes(d[1].min_term) + SumBytes(d[1].max_term)
          + d[1].index_start_fp + DirChecksum(Tail(d))) % 256

\* the terms files: the footer holds the checksum of the directory as it was
\* written (checksum), which is the checksum of the directory as it is read
\* unless a byte of the directory was changed behind the writer
Segments ==
    { [version |-> m.version, marker |-> m.marker,
       num_fields |-> Len(d), entries |-> d,
       max_doc |-> 1, field_infos |-> FieldInfos,
       checksum |-> (DirChecksum(d) + c) % 256] :
        m \in Markers, d \in Directories, c \in {0, 1} }
    \cup
    { [version |-> m.version, marker |-> m.marker,
       num_fields |-> -1, entries |-> <<>>,
       max_doc |-> 1, field_infos |-> FieldInfos,
       checksum |-> 0] : m \in Markers }

\* ------------------------------------------------------------------------
\* The state machine: one iterator of one field, driven by public calls
\* ------------------------------------------------------------------------
\* last records the most recent public call: its name, target, result and,
\* for seek_exact, whether it repeats the target of the seek_exact before it
VARIABLES field, it, last, nops, yielded,
          seg, reader, asked,
          stats,
          peer

\* the iterator and the caller's record of its calls
iterVars == <<field, it, last, nops, yielded>>

\* the segment files, the reader opened on them, the last call on the reader
openVars == <<seg, reader, asked>>

vars == <<field, it, last, nops, yielded, seg, reader, asked, stats, peer>>

\* no reader is being opened
OpenIdle ==
    /\ seg = <<>>
    /\ reader = [status |-> "closed"]
    /\ asked = [op |-> "none"]

\* instrumentation of one public call starts empty
Enter(s) ==
    [s EXCEPT !.lookups = <<>>,
              !.loads = 0,
              !.was = [seeked |-> s.current_frame_ord # s.static_frame.ord,
                       term |-> term(s),
                       vip |-> s.valid_index_prefix],
              !.arm = [cmp |-> "none"],
              !.tail = [status |-> "none"],
              !.pops = <<>>,
              !.pushes = <<>>]

Init ==
    /\ field \in Fields
    /\ it = NewIterator(field)
    /\ last = [op |-> "new", target |-> <<>>, res |-> "none", val |-> <<>>,
               again |-> FALSE]
    /\ nops = 0
    /\ yielded = <<>>
    /\ OpenIdle /\ stats = [pc |-> "idle"] /\ peer = [made |-> FALSE]

\* next() is also allowed beyond MaxOps while the behaviour is one plain
\* enumeration of the field (only next() calls since construction)
PlainRun ==
    /\ last.op \in {"new", "next"}
    /\ Len(yielded) = (IF last.res = "None" THEN nops - 1 ELSE nops)

DoNext ==
    /\ ~it.panicked
    /\ nops < MaxOps \/ PlainRun
    /\ \E r \in { next(field, Enter(it)) } :
           /\ it' = r.s
           /\ last' = [op |-> "next", target |-> <<>>,
                       res |-> IF r.s.panicked THEN "panic"
                               ELSE IF r.res = <<>> THEN "None" ELSE "Some",
                       val |-> r.res, again |-> FALSE]
           /\ yielded' = IF PlainRun /\ r.res # <<>> THEN yielded \o r.res
                         ELSE yielded
    /\ nops' = nops + 1
    /\ UNCHANGED <<field, openVars, stats, peer>>

DoSeekExact ==
    /\ ~it.panicked
    /\ nops < MaxOps
    /\ \E t \in Targets(field) :
         \E r \in { seek_exact(field, Enter(it), t) } :
             /\ it' = r.s
             /\ last' = [op |-> "seek_exact", target |-> t,
                         res |-> IF r.s.panicked THEN "panic"
                                 ELSE IF r.res THEN "true" ELSE "false",
                         val |-> <<>>,
                         again |-> last.op = "seek_exact" /\ last.target = t]
    /\ nops' = nops + 1
    /\ UNCHANGED <<field, yielded, openVars, stats, peer>>

DoSeekCeil ==
    /\ ~it.panicked
    /\ nops < MaxOps
    /\ \E t \in Targets(field) :
         \E r \in { seek_ceil(field, Enter(it), t) } :
             /\ it' = r.s
             /\ last' = [op |-> "seek_ceil", target |-> t,
                         res |-> IF r.s.panicked THEN "panic" ELSE r.res,
                         val |-> <<>>, again |-> FALSE]
    /\ nops' = nops + 1
    /\ UNCHANGED <<field, yielded, openVars, stats, peer>>

DoSeekExactState ==
    /\ ~it.panicked
    /\ nops < MaxOps
    /\ \E u \in TermTable[field.name] :
         /\ it' = seek_exact_state(Enter(it), u, SavedState(field, u))
         /\ last' = [op |-> "seek_exact_state", target |-> u, res |-> "ok",
                     val |-> <<>>, again |-> FALSE]
    /\ nops' = nops + 1
    /\ UNCHANGED <<field, yielded, openVars, stats, peer>>

DoSeekExactOrd ==
    /\ ~it.panicked
    /\ nops < MaxOps
    /\ \E ord \in {0, 1} :
         \E s \in { seek_exact_ord(Enter(it), ord) } :
             /\ it' = s
             /\ last' = [op |-> "seek_exact_ord", target |-> <<>>,
                         res |-> IF s.panicked THEN "panic"
                                 ELSE "UnsupportedOperation",
                         val |-> <<>>, again |-> FALSE]
    /\ nops' = nops + 1
    /\ UNCHANGED <<field, yielded, openVars, stats, peer>>

\* term_state(), doc_freq(), total_term_freq(), postings(): the lazy
\* metadata decode of the current frame
DoTermState ==
    /\ ~it.panicked
    /\ last.res \in {"true", "Some", "Found", "NotFound", "ok"}
    /\ \E r \in { term_state(field, it) } :
           /\ r.s # it
           /\ it' = r.s
    /\ UNCHANGED <<field, last, nops, yielded, openVars, stats, peer>>

Next ==
    \/ DoNext
    \/ DoSeekExact
    \/ DoSeekCeil
    \/ DoSeekExactState
    \/ DoSeekExactOrd
    \/ DoTermState

Spec == Init /\ [][Next]_vars

\* iterators over field readers built without a terms index
InitNoIndex ==
    /\ field \in { WithoutIndex(F) : F \in Fields }
    /\ it = NewIterator(field)
    /\ last = [op |-> "new", target |-> <<>>, res |-> "none", val |-> <<>>,
               again |-> FALSE]
    /\ nops = 0
    /\ yielded = <<>>
    /\ OpenIdle /\ stats = [pc |-> "idle"] /\ peer = [made |-> FALSE]

SpecNoIndex == InitNoIndex /\ [][Next]_vars

\* ------------------------------------------------------------------------
\* The state machine of a reader: opened once on a segment, then asked
\* ------------------------------------------------------------------------
\* no iterator exists
IterIdle ==
    /\ field = <<>>
    /\ it = <<>>
    /\ last = [op |-> "none"]
    /\ nops = 0
    /\ yielded = <<>>

InitOpen ==
    /\ seg \in Segments
    /\ reader = [status |-> "closed"]
    /\ asked = [op |-> "none"]
    /\ IterIdle /\ stats = [pc |-> "idle"] /\ peer = [made |-> FALSE]

DoOpen ==
    /\ reader.status = "closed"
    /\ reader' = BlockTreeTermsReader_new(seg)
    /\ UNCHANGED <<seg, asked, iterVars, stats, peer>>

DoTerms ==
    /\ reader.status = "open"
    /\ \E name \in { NameOrder[k] : k \in 1..Len(NameOrder) } :
           asked' = [op |-> "terms", name |-> name, res |-> Fields_terms(reader, name)]
    /\ UNCHANGED <<seg, reader, iterVars, stats, peer>>

DoFields ==
    /\ reader.status = "open"
    /\ asked' = [op |-> "fields", name |-> "", res |-> Fields_fields(reader)]
    /\ UNCHANGED <<seg, reader, iterVars, stats, peer>>

DoSize ==
    /\ reader.status = "open"
    /\ asked' = [op |-> "size", name |-> "", res |-> Fields_size(reader)]
    /\ UNCHANGED <<seg, reader, iterVars, stats, peer>>

NextOpen ==
    \/ DoOpen
    \/ DoTerms
    \/ DoFields
    \/ DoSize

SpecOpen == InitOpen /\ [][NextOpen]_vars

\* ------------------------------------------------------------------------
\* The state machine of FieldReader::stats: one walk of one field
\* ------------------------------------------------------------------------
InitStats ==
    /\ field \in AllFields
    /\ it = NewIterator(field)
    /\ last = [op |-> "new", target |-> <<>>, res |-> "none", val |-> <<>>,
               again |-> FALSE]
    /\ nops = 0
    /\ yielded = <<>>
    /\ OpenIdle /\ stats = [pc |-> "idle"] /\ peer = [made |-> FALSE]

\* FieldReader::stats: compute_block_stats on an iterator of its own
DoStats ==
    /\ stats.pc = "idle"
    /\ \E r \in { compute_block_stats(field, it) } :
           /\ it' = r.s
           /\ stats' = [pc |-> "done", err |-> r.err, st |-> r.st]
    /\ UNCHANGED <<field, last, nops, yielded, openVars, peer>>

NextStats == DoStats

SpecStats == InitStats /\ [][NextStats]_vars

\* ------------------------------------------------------------------------
\* The state machine of two iterators of one field reader
\* ------------------------------------------------------------------------
\* The IndexInput objects: object 0 is the terms_in of the field reader,
\* object i the one allocated for iterator i. An iterator reads and moves
\* the file pointer of the object its input refers to.
\* init_index_input that keeps the reference to the reader's input
init_index_input_Shared(input, terms_in, fresh) ==
    IF ~input.some THEN [some |-> TRUE, obj |-> terms_in] ELSE input

\* SegmentTermIteratorInner::init_index_input: (*self.terms_in).clone() is
\* a new IndexInput object, taken once
init_index_input(input, terms_in, fresh) ==
    IF ~input.some THEN [some |-> TRUE, obj |-> fresh] ELSE input

\* the calls made on the two iterators: every target of at most one byte
\* and the terms of three bytes, which lie in nested blocks
PairTargets(F) ==
    { t \in TargetTable[F.name] : Len(t) <= 1 \/ (Len(t) = 3 /\ t \in TermTable[F.name]) }

\* iterator i as its next call finds it: the file pointer is the one of the
\* object its input refers to
PairView(i) ==
    [peer.cur[i] EXCEPT !.input_pos = IF peer.input[i].some
                                      THEN peer.pos[peer.input[i].obj] ELSE @]

\* FieldReader::iterator, twice; solo[i] is iterator i of a run in which
\* the other iterator makes no call
InitPair ==
    /\ field \in Fields
    /\ it = NewIterator(field)
    /\ last = [op |-> "new", target |-> <<>>, res |-> "none", val |-> <<>>,
               again |-> FALSE]
    /\ nops = 0
    /\ yielded = <<>>
    /\ OpenIdle /\ stats = [pc |-> "idle"]
    /\ peer = [made |-> TRUE,
               fr |-> field,
               cur |-> << NewIterator(field), NewIterator(field) >>,
               solo |-> << NewIterator(field), NewIterator(field) >>,
               input |-> << [some |-> FALSE, obj |-> 0], [some |-> FALSE, obj |-> 0] >>,
               pos |-> [o \in 0..2 |-> 0],
               who |-> 0, res |-> "none", sres |-> "none"]

\* the state behind a call on iterator i that returned r, the same call of
\* the solo run having returned q
PairCalled(i, r, q, input) ==
    /\ peer' = [peer EXCEPT
                  !.cur[i] = r.s,
                  !.solo[i] = q.s,
                  !.input[i] = input,
                  !.pos = IF input.some THEN [@ EXCEPT ![input.obj] = r.s.input_pos]
                          ELSE @,
                  !.who = i,
                  !.res = r.res,
                  !.sres = q.res]
    /\ nops' = nops + 1
    /\ UNCHANGED <<field, it, last, yielded, openVars, stats>>

\* the input of iterator i behind a call that left the iterator in state s
PairInput(i, s) ==
    IF s.input_open THEN init_index_input(peer.input[i], 0, i)
    ELSE peer.input[i]

PairNext ==
    /\ nops < MaxOps
    /\ \E i \in {1, 2} :
         /\ ~peer.cur[i].panicked
         /\ \E r \in { next(field, Enter(PairView(i))) } :
              \E q \in { next(field, Enter(peer.solo[i])) } :
                  PairCalled(i, r, q, PairInput(i, r.s))

PairSeekExact ==
    /\ nops < MaxOps
    /\ \E i \in {1, 2} :
         /\ ~peer.cur[i].panicked
         /\ \E t \in PairTargets(field) :
              \E r \in { seek_exact(field, Enter(PairView(i)), t) } :
                  \E q \in { seek_exact(field, Enter(peer.solo[i]), t) } :
                      PairCalled(i, r, q, PairInput(i, r.s))

PairSeekCeil ==
    /\ nops < MaxOps
    /\ \E i \in {1, 2} :
         /\ ~peer.cur[i].panicked
         /\ \E t \in PairTargets(field) :
              \E r \in { seek_ceil(field, Enter(PairView(i)), t) } :
                  \E q \in { seek_ceil(field, Enter(peer.solo[i]), t) } :
                      PairCalled(i, r, q, PairInput(i, r.s))

PairSeekExactState ==
    /\ nops < MaxOps
    /\ \E i \in {1, 2} :
         /\ ~peer.cur[i].panicked
         /\ \E u \in PairTargets(field) \cap TermTable[field.name] :
              \E r \in { [s |-> seek_exact_state(Enter(PairView(i)), u,
                                                 SavedState(field, u)),
                          res |-> "ok"] } :
                  \E q \in { [s |-> seek_exact_state(Enter(peer.solo[i]), u,
                                                     SavedState(field, u)),
                              res |-> "ok"] } :
                      PairCalled(i, r, q, PairInput(i, r.s))

NextPair ==
    \/ PairNext
    \/ PairSeekExact
    \/ PairSeekCeil
    \/ PairSeekExactState

SpecPair == InitPair /\ [][NextPair]_vars

\* ------------------------------------------------------------------------
\* Lucene53NormsProducer: the norms metadata file and the producer built
\* from it
\* ------------------------------------------------------------------------
\* FieldInfos of the segment: fields 0 and 1 have norms, field 2 has none,
\* no other field number is known
NormsInfos ==
    (0 :> [number |-> 0, name |-> "a", has_norms |-> TRUE])
    @@ (1 :> [number |-> 1, name |-> "b", has_norms |-> TRUE])
    @@ (2 :> [number |-> 2, name |-> "c", has_norms |-> FALSE])

\* the metadata files: up to MaxNormsEntries entries (field number, one
\* byte bytes_per_value, offset), the end marker -1, and behind it nothing
\* or one more entry; the versions of the headers of the metadata file and
\* of the data file
NormsFiles ==
    LET Ent == [field_num : {0, 1, 2, 5}, bytes_per_value : {0, 1, 2, 3, 4, 8, 255},
                offset : {10}]
        End == [field_num |-> -1, bytes_per_value |-> 0, offset |-> 0]
        Behind == [field_num |-> 1, bytes_per_value |-> 4, offset |-> 30]
    IN  { [meta |-> body \o << End >> \o rest,
           meta_version |-> 0, data_version |-> dv, max_doc |-> 3] :
            body \in UNION { [1..n -> Ent] : n \in 0..MaxNormsEntries },
            rest \in { <<>>, << Behind >> },
            dv \in {0, 1} }

\* read_fields that stores an entry whatever its bytes_per_value
RECURSIVE read_fields_AnyWidth(_, _, _, _)
read_fields_AnyWidth(input, k, infos, norms) ==
    LET field_num == input[k].field_num
        bytes_per_value == input[k].bytes_per_value
    IN  IF field_num = -1 THEN [err |-> "none", norms |-> norms]
        ELSE IF field_num \notin DOMAIN infos
        THEN [err |-> "IllegalArgument", norms |-> norms]
        ELSE IF ~infos[field_num].has_norms
        THEN [err |-> "CorruptIndex", norms |-> norms]
        ELSE read_fields_AnyWidth(input, k + 1, infos,
                 [n \in (DOMAIN norms) \cup {infos[field_num].number} |->
                     IF n = infos[field_num].number
                     THEN [bytes_per_value |-> bytes_per_value,
                           offset |-> input[k].offset]
                     ELSE norms[n]])

\* Lucene53NormsProducer::read_fields from position k of the input on:
\* [err, norms]. The input ends behind an end marker in every file, so
\* read_vint always finds a field number.
RECURSIVE read_fields(_, _, _, _)
read_fields(input, k, infos, norms) ==
    LET field_num == input[k].field_num
        bytes_per_value == input[k].bytes_per_value
    IN  IF field_num = -1 THEN [err |-> "none", norms |-> norms]
        ELSE IF field_num \notin DOMAIN infos
        THEN [err |-> "IllegalArgument", norms |-> norms]
        ELSE IF ~infos[field_num].has_norms
        THEN [err |-> "CorruptIndex", norms |-> norms]
        ELSE IF bytes_per_value \notin {0, 1, 2, 4, 8}
        THEN [err |-> "CorruptIndex", norms |-> norms]
        ELSE read_fields(input, k + 1, infos,
                 [n \in (DOMAIN norms) \cup {infos[field_num].number} |->
                     IF n = infos[field_num].number
                     THEN [bytes_per_value |-> bytes_per_value,
                           offset |-> input[k].offset]
                     ELSE norms[n]])

\* Lucene53NormsProducer::new behind the header of the metadata file: the
\* entries are read, then the version of the data file is compared
Lucene53NormsProducer_new(file, infos) ==
    LET r == read_fields(file.meta, 1, infos, NoFields)
    IN  IF r.err # "none" THEN [status |-> r.err]
        ELSE IF file.data_version # file.meta_version
        THEN [status |-> "CorruptIndex"]
        ELSE [status |-> "open", max_doc |-> file.max_doc, entries |-> r.norms]

\* NormsProducer::norms for the field of number n: a constant for
\* bytes_per_value 0, a slice of max_doc values of 1, 2, 4 or 8 bytes
\* otherwise; indexing entries with a missing key panics
norms(p, n) ==
    IF n \notin DOMAIN p.entries THEN [kind |-> "panic"]
    ELSE IF p.entries[n].bytes_per_value = 0
    THEN [kind |-> "Scalar", value |-> p.entries[n].offset]
    ELSE IF p.entries[n].bytes_per_value \in {1, 2, 4, 8}
    THEN [kind |-> "RandomAccess", offset |-> p.entries[n].offset,
          length |-> p.max_doc * p.entries[n].bytes_per_value,
          shift |-> CHOOSE sh \in 0..3 : 2 ^ sh = p.entries[n].bytes_per_value]
    ELSE [kind |-> "CorruptIndex"]

\* The state machine of a norms producer: built once on the files of a
\* segment, then asked for the norms of a field
InitNorms ==
    /\ seg \in NormsFiles
    /\ reader = [status |-> "closed"]
    /\ asked = [op |-> "none"]
    /\ IterIdle /\ stats = [pc |-> "idle"] /\ peer = [made |-> FALSE]

DoNormsNew ==
    /\ reader.status = "closed"
    /\ reader' = Lucene53NormsProducer_new(seg, NormsInfos)
    /\ UNCHANGED <<seg, asked, iterVars, stats, peer>>

DoNorms ==
    /\ reader.status = "open"
    /\ \E n \in DOMAIN NormsInfos :
           asked' = [op |-> "norms", field |-> n, res |-> norms(reader, n)]
    /\ UNCHANGED <<seg, reader, iterVars, stats, peer>>

NextNorms ==
    \/ DoNormsNew
    \/ DoNorms

SpecNorms == InitNorms /\ [][NextNorms]_vars

\* ------------------------------------------------------------------------
\* Reference results
\* ------------------------------------------------------------------------
\* the terms a full next() enumeration of a fresh iterator produces
RECURSIVE Enumerate(_, _, _)
EnumerateFrom(F, r, n) ==
    IF r.s.panicked \/ r.res = <<>> THEN <<>>
    ELSE r.res \o Enumerate(F, r.s, n - 1)

Enumerate(F, s, n) ==
    IF n = 0 THEN <<>>
    ELSE EnumerateFrom(F, next(F, s), n)

EnumTable ==
    [n \in { F.name : F \in Fields } |->
        Enumerate(FieldNamed(n), NewIterator(FieldNamed(n)),
                  FieldNamed(n).num_terms + 1)]

Range(q) == { q[k] : k \in 1..Len(q) }

\* seek_exact(t) on an iterator of its own
FreshSeekTable ==
    [n \in { F.name : F \in Fields } |->
        [t \in TargetTable[n] |->
            seek_exact(FieldNamed(n), NewIterator(FieldNamed(n)), t)]]

Greater(F, t) == { u \in TermTable[F.name] : BytesCmp(u, t) > 0 }

IsLeast(u, set) == u \in set /\ \A v \in set : BytesCmp(u, v) <= 0

\* ------------------------------------------------------------------------
\* Properties
\* ------------------------------------------------------------------------
\* C1 Round-trip: seek_exact(u) of a term u that a full next() enumeration
\* of the field produces returns true and leaves term() equal to u.
C1_RoundTrip ==
    (last.op = "seek_exact" /\ last.target \in Range(EnumTable[field.name]))
        => (last.res = "true" /\ term(it) = last.target)

\* a seek back to an earlier term of the block the iterator already stands in
C1_Witness ==
    /\ last.op = "seek_exact" /\ last.res = "true" /\ nops = 2
    /\ last.target \in Range(EnumTable[field.name])
    /\ term(it) = last.target
    /\ it.target_before_current_length = it.current_frame_ord
    /\ it.current_frame_ord >= 1
    /\ it.lookups = <<>>
    /\ it.loads = 0

\* C2 Ceiling: seek_ceil(t) returns Found iff the field contains t, NotFound
\* iff it does not and holds a greater term, term() then being the least
\* such term, and End iff every term is smaller than t.
C2_Ceiling ==
    last.op = "seek_ceil" =>
        LET t == last.target
            terms == TermTable[field.name]
            gt == Greater(field, t)
        IN  /\ last.res \in {"Found", "NotFound", "End"}
            /\ (last.res = "Found") <=> (t \in terms)
            /\ (last.res = "NotFound") <=> (t \notin terms /\ gt # {})
            /\ (last.res = "NotFound") => IsLeast(term(it), gt)
            /\ (last.res = "End") <=> (\A u \in terms : BytesCmp(u, t) < 0)

\* a seek_ceil that ran off the end of a sub-block and found the ceiling
\* term in a block above it
C2_Witness ==
    /\ last.op = "seek_ceil" /\ last.res = "NotFound"
    /\ last.target \notin TermTable[field.name]
    /\ Len(it.stack) > it.current_frame_ord + 1
    /\ IsLeast(term(it), Greater(field, last.target))

\* C3 Monotonic enumeration: a plain run of next() on a fresh iterator yields
\* the terms of the field in strictly ascending order, each once, and then
\* None.
C3_Enumeration ==
    PlainRun =>
        /\ \A k \in 1..Len(yielded) : yielded[k] \in TermTable[field.name]
        /\ \A k \in 1..(Len(yielded) - 1) : BytesCmp(yielded[k], yielded[k + 1]) < 0
        /\ (last.res = "None") =>
              /\ Len(yielded) = field.num_terms
              /\ Range(yielded) = TermTable[field.name]

\* a complete plain run over a field with floor blocks and nested sub-blocks
C3_Witness ==
    /\ PlainRun /\ last.res = "None"
    /\ Len(yielded) = field.num_terms
    /\ \E fp \in DOMAIN field.blocks : ~field.blocks[fp].last
    /\ Len(it.stack) >= 3

\* C4 Exactness: seek_exact(t) of a t that is not a term returns false.
C4_Exactness ==
    (last.op = "seek_exact" /\ last.target \notin TermTable[field.name])
        => last.res = "false"

\* a second seek whose target is a proper prefix of a term and no term
C4_Witness ==
    /\ last.op = "seek_exact" /\ last.res = "false" /\ nops = 2
    /\ last.target \notin TermTable[field.name]
    /\ \E u \in TermTable[field.name] : IsPrefix(last.target, u)

\* C5 Positioned after success: after seek_exact returned true or next
\* returned Some(t), term() is that term, term_exists holds and the current
\* frame is a loaded stack frame standing on the entry of that term.
C5_Positioned ==
    ((last.op = "seek_exact" /\ last.res = "true")
        \/ (last.op = "next" /\ last.res = "Some"))
    => /\ term(it) = (IF last.op = "next" THEN last.val[1] ELSE last.target)
       /\ it.term_exists
       /\ it.current_frame_ord >= 0
       /\ it.current_frame_ord < Len(it.stack)
       /\ LET f == Fr(it, it.current_frame_ord)
          IN  /\ f.next_ent # -1
              /\ f.next_ent >= 1
              /\ f.fp \in DOMAIN field.blocks
              /\ f.next_ent <= Len(field.blocks[f.fp].ents)
              /\ ~CurEnt(field, f).sub
              /\ field.blocks[f.fp].prefix \o CurEnt(field, f).suffix = term(it)

\* next() that descended into a nested sub-block to reach its term
C5_Witness ==
    /\ last.op = "next" /\ last.res = "Some"
    /\ it.current_frame_ord >= 2
    /\ it.term_exists
    /\ term(it) = last.val[1]

\* C6 History independence: seek_exact(t) returns, in every reachable state,
\* what it returns on a fresh iterator, and on success the same term() and
\* term_state().
C6_HistoryIndependence ==
    last.op = "seek_exact" =>
        LET fresh == FreshSeekTable[field.name][last.target]
        IN  /\ last.res = (IF fresh.res THEN "true" ELSE "false")
            /\ fresh.res =>
                 /\ term(it) = term(fresh.s)
                 /\ term_state(field, it).res = term_state(field, fresh.s).res

\* a successful seek on an iterator that an earlier call left on a deeper
\* frame
C6_Witness ==
    /\ last.op = "seek_exact" /\ last.res = "true" /\ nops = 2
    /\ Len(it.stack) > it.current_frame_ord + 1
    /\ term_state(field, it).res
         = term_state(field, FreshSeekTable[field.name][last.target].s).res

\* where a frame stands: block, entry cursor and term ordinal
FramePos(f) ==
    [fp |-> f.fp, fp_orig |-> f.fp_orig, prefix |-> f.prefix,
     next_ent |-> f.next_ent, term_block_ord |-> get_term_block_ord(f),
     has_terms |-> f.has_terms]

\* what a caller can observe of the iterator: the term, the flags and the
\* positions of the frames up to the current one
Observable(s) ==
    [term |-> term(s), term_exists |-> s.term_exists,
     current_frame_ord |-> s.current_frame_ord,
     frames |-> [o \in 0..Min(s.current_frame_ord, Len(s.stack) - 1) |->
                    FramePos(Fr(s, o))],
     valid_index_prefix |-> s.valid_index_prefix,
     eof |-> s.eof]

\* C7 Seek idempotence: a second seek_exact(u) right after seek_exact(u)
\* gives the same result and the same observable state, and after a true
\* result it makes no FST lookup and loads no block.
C7_Idempotence ==
    [][(last.op = "seek_exact" /\ last'.op = "seek_exact"
           /\ last'.target = last.target /\ nops' = nops + 1)
         => /\ last'.res = last.res
            /\ Observable(it') = Observable(it)
            /\ (last.res = "true" => (it'.lookups = <<>> /\ it'.loads = 0))]_vars

\* the second of two seek_exact calls with one target, both true
C7_Witness ==
    /\ last.op = "seek_exact" /\ last.again /\ last.res = "true"
    /\ it.lookups = <<>> /\ it.loads = 0

\* C8 seek_exact_state bypass: on a fresh iterator seek_exact_state(u, s)
\* with the state saved at u makes the static frame current, sets term() to
\* u without an FST lookup, and the metadata read afterwards is the saved
\* one.
C8_StateBypass ==
    (last.op = "seek_exact_state" /\ nops = 1) =>
        LET fresh == FreshSeekTable[field.name][last.target].s
        IN  /\ it.current_frame_ord = -1
            /\ term(it) = last.target
            /\ it.lookups = <<>>
            /\ term_state(field, it).res = term_state(field, fresh).res
            /\ doc_freq(field, it) = doc_freq(field, fresh)
            /\ total_term_freq(field, it) = total_term_freq(field, fresh)

\* seek_exact_state on a fresh iterator with the state of a term that is
\* not the first of its block
C8_Witness ==
    /\ last.op = "seek_exact_state" /\ nops = 1
    /\ it.current_frame_ord = -1
    /\ it.static_frame.metadata_upto >= 2
    /\ doc_freq(field, it)
         = doc_freq(field, FreshSeekTable[field.name][last.target].s)

\* C9 next after seek_exact_state: the next() that follows
\* seek_exact_state(u, s) returns the least term greater than u, or None
\* when u is the last term.
C9_NextAfterState ==
    [][(last.op = "seek_exact_state" /\ last'.op = "next")
         => LET gt == Greater(field, last.target)
            IN  IF gt = {} THEN last'.res = "None"
                ELSE last'.res = "Some" /\ IsLeast(last'.val[1], gt)]_vars

\* the frame stands at the start of the first block of its floor run
Rewound(f) ==
    /\ f.next_ent = 0
    /\ f.fp = f.fp_orig
    /\ f.metadata_upto = 0
    /\ f.state.term_block_ord = 0

\* C10 Exhaustion: when next() returns None, eof is set, the term is empty,
\* term_exists is false, valid_index_prefix and current_frame_ord are 0 and
\* the root frame is rewound.
C10_Exhaustion ==
    (last.op = "next" /\ last.res = "None") =>
        /\ it.eof
        /\ it.term_len = 0
        /\ term(it) = <<>>
        /\ ~it.term_exists
        /\ it.valid_index_prefix = 0
        /\ it.current_frame_ord = 0
        /\ Rewound(Fr(it, 0))

\* next() returning None right after a seek to the last term of a field
C10_Witness ==
    /\ last.op = "next" /\ last.res = "None" /\ ~PlainRun
    /\ it.eof /\ Rewound(Fr(it, 0))

\* C16 seek_exact_ord is unsupported: for every ord and every iterator state
\* the call returns the UnsupportedOperation error value, it does not abort,
\* and the iterator state is what it was before the call.
C16_SeekExactOrdError ==
    [][last'.op = "seek_exact_ord"
         => /\ last'.res = "UnsupportedOperation"
            /\ ~it'.panicked
            /\ it' = Enter(it)]_vars
\* C17 seek_ceil without a terms index: on an iterator whose field reader
\* has no loaded index seek_ceil returns the IllegalState error and the
\* iterator (term buffer, eof, current_frame_ord,
\* target_before_current_length, frame stack) is what it was before the call.
C17_SeekCeilNoIndex ==
    [][(last'.op = "seek_ceil" /\ ~HasIndex(field))
         => /\ last'.res = "IllegalState"
            /\ it' = Enter(it)]_vars

\* seek_ceil refused on an iterator that next() has positioned on a term of
\* a loaded block
C17_Witness ==
    /\ ~HasIndex(field)
    /\ last.op = "seek_ceil" /\ last.res = "IllegalState"
    /\ it.current_frame_ord >= 0 /\ it.term_len > 0 /\ it.input_open
\* the field readers of the opened reader
FieldReaders == { reader.fields[n] : n \in DOMAIN reader.fields }

\* C12 Version marker: an opened reader has any_auto_prefix_terms false for
\* format version 0 and for version 3 and later, true for version 1, and for
\* version 2 the marker byte of the terms file (0 false, 1 true); a
\* version-2 marker byte other than 0 or 1 makes open fail with CorruptIndex
\* and no reader is returned.
C12_VersionMarker ==
    /\ reader.status = "open" =>
          /\ seg.version = 2 => seg.marker \in {0, 1}
          /\ reader.any_auto_prefix_terms =
                (IF seg.version = 1 THEN TRUE
                 ELSE IF seg.version = 2 THEN seg.marker = 1
                 ELSE FALSE)
    /\ (reader.status # "closed" /\ seg.version = 2 /\ seg.marker \notin {0, 1})
          => reader.status = "CorruptIndex"

\* a version-2 terms file with marker byte 1 and a field, opened
C12_Witness ==
    /\ reader.status = "open"
    /\ seg.version = 2 /\ seg.marker = 1
    /\ reader.any_auto_prefix_terms
    /\ DOMAIN reader.fields # {}

\* the counts of the directory entry e as open reads them break an
\* invariant of field entries
BreaksCounts(e) ==
    \/ e.num_terms <= 0
    \/ e.doc_count < 0
    \/ e.doc_count > seg.max_doc
    \/ e.sum_doc_freq < e.doc_count
    \/ /\ e.field \in DOMAIN seg.field_infos
       /\ seg.field_infos[e.field].index_options # "Docs"
       /\ e.sum_total_term_freq # -1
       /\ e.sum_total_term_freq < e.sum_doc_freq

\* C13 Field-entry invariants: every field reader of an opened reader has
\* num_terms > 0, 0 <= doc_count <= max_doc, sum_doc_freq >= doc_count and
\* sum_total_term_freq = -1 or >= sum_doc_freq; a directory entry that
\* breaks one of them makes open fail with CorruptIndex.
C13_FieldEntryInvariants ==
    /\ reader.status = "open" =>
          \A fr \in FieldReaders :
              /\ fr.num_terms > 0
              /\ 0 <= fr.doc_count /\ fr.doc_count <= seg.max_doc
              /\ fr.sum_doc_freq >= fr.doc_count
              /\ \/ fr.sum_total_term_freq = -1
                 \/ fr.sum_total_term_freq >= fr.sum_doc_freq
    /\ (reader.status # "closed"
        /\ \E k \in 1..Len(seg.entries) : BreaksCounts(seg.entries[k]))
          => reader.status = "CorruptIndex"

\* an opened field reader whose counts sit on the bounds: doc_count =
\* max_doc = sum_doc_freq = sum_total_term_freq
C13_Witness ==
    /\ reader.status = "open"
    /\ \E fr \in FieldReaders :
          /\ fr.doc_count = seg.max_doc
          /\ fr.sum_doc_freq = fr.doc_count
          /\ fr.sum_total_term_freq = fr.sum_doc_freq

\* the name the directory entry at k resolves to, "" for an unknown number
NameAt(k) ==
    IF seg.entries[k].field \in DOMAIN seg.field_infos
    THEN seg.field_infos[seg.entries[k].field].name
    ELSE ""

\* C14 Unique field names: two directory entries that resolve to the same
\* field name make open fail with CorruptIndex; fields() of an opened reader
\* lists each name once and size() is the number of directory entries.
C14_UniqueNames ==
    /\ (reader.status # "closed"
        /\ \E j, k \in 1..Len(seg.entries) :
              j < k /\ NameAt(j) # "" /\ NameAt(j) = NameAt(k))
          => reader.status = "CorruptIndex"
    /\ reader.status = "open" =>
          /\ \A j, k \in 1..Len(Fields_fields(reader)) :
                 j # k => Fields_fields(reader)[j] # Fields_fields(reader)[k]
          /\ Fields_size(reader) = seg.num_fields
          /\ Len(Fields_fields(reader)) = Fields_size(reader)
    /\ asked.op = "size" => asked.res = Len(seg.entries)
    /\ asked.op = "fields" =>
          /\ Len(asked.res) = Len(seg.entries)
          /\ \A j, k \in 1..Len(asked.res) : j # k => asked.res[j] # asked.res[k]

\* size() asked of a reader opened on a directory of two entries
C14_Witness ==
    /\ reader.status = "open"
    /\ asked.op = "size" /\ asked.res = 2
    /\ Len(seg.entries) = 2

\* C15 terms(name): Ok(None) for every name that is not in fields(),
\* Ok(Some(the field reader of that name)) for every name that is; never an
\* error, and the reader is what it was before the call.
C15_Terms ==
    [][asked'.op = "terms" =>
          /\ reader' = reader
          /\ asked'.res.err = "none"
          /\ asked'.res.some <=>
                (\E k \in 1..Len(Fields_fields(reader)) :
                     Fields_fields(reader)[k] = asked'.name)
          /\ asked'.res.some => asked'.res.reader = reader.fields[asked'.name]]_vars

\* terms("x") answered with None by a reader that has fields
C15_Witness ==
    /\ reader.status = "open" /\ DOMAIN reader.fields # {}
    /\ asked.op = "terms" /\ asked.name = "x"
    /\ asked.res.err = "none" /\ ~asked.res.some

\* C18 longs_size range: open rejects with CorruptIndex every field entry
\* whose longs_size is negative or greater than MAX_LONGS_SIZE, and every
\* field reader of an opened reader has 0 <= longs_size <= MAX_LONGS_SIZE.
C18_LongsSizeRange ==
    /\ (reader.status # "closed"
        /\ \E k \in 1..Len(seg.entries) :
              \/ seg.entries[k].longs_size < 0
              \/ seg.entries[k].longs_size > MAX_LONGS_SIZE)
          => reader.status = "CorruptIndex"
    /\ reader.status = "open" =>
          \A fr \in FieldReaders :
              0 <= fr.longs_size /\ fr.longs_size <= MAX_LONGS_SIZE
\* C19 Stats consistency: when the stats walk of a well-formed block tree
\* has finished, start_block_count = end_block_count, total_block_count =
\* floor_sub_block_count + non_floor_block_count, and total_block_count =
\* mixed_block_count + terms_only_block_count + sub_blocks_only_block_count.
C19_StatsConsistency ==
    stats.pc = "done" =>
        /\ stats.err = "none"
        /\ ~it.panicked
        /\ stats.st.start_block_count = stats.st.end_block_count
        /\ stats.st.total_block_count =
              stats.st.floor_sub_block_count + stats.st.non_floor_block_count
        /\ stats.st.total_block_count =
              stats.st.mixed_block_count + stats.st.terms_only_block_count
              + stats.st.sub_blocks_only_block_count

\* a finished walk that has counted floor blocks, a block of sub-blocks
\* only and a block of terms only
C19_Witness ==
    /\ stats.pc = "done" /\ stats.err = "none"
    /\ stats.st.floor_sub_block_count >= 2
    /\ stats.st.sub_blocks_only_block_count >= 1
    /\ stats.st.terms_only_block_count >= 1

\* C20 Term count: after the stats walk of a field, total_term_count is the
\* number of terms a full next() iteration of that field yields.
C20_TotalTermCount ==
    stats.pc = "done" =>
        stats.st.total_term_count =
            Len(Enumerate(field, NewIterator(field), field.num_terms + 1))
\* iterator i at the end of the interleaved run: its fields and the file
\* pointer of its input
PairFinal(i) == PairView(i)

OneByteChanged(g) ==
    /\ g.num_fields >= 1
    /\ g.entries[1].num_terms \in 0..126
    /\ g.checksum = (DirChecksum(g.entries) + 1) % 256

C21_CorruptionDetected ==
    OneByteChanged(seg) => ~(reader.status = "open" /\ asked.op # "none")

\* ------------------------------------------------------------------------
\* C22: the backward arm of the seek preamble
\* ------------------------------------------------------------------------
\* the number of leading bytes on which a and b agree, n at most
RECURSIVE SharedLen(_, _, _)
SharedLen(a, b, n) ==
    IF n = 0 \/ a = <<>> \/ b = <<>> \/ a[1] # b[1] THEN 0
    ELSE 1 + SharedLen(Tail(a), Tail(b), n - 1)

\* the number of final arcs among the arcs of the first n bytes of the term
FinalArcs(arcs, n) == Cardinality({ k \in 1..n : arcs[k + 1].final })

\* the reused prefix of the seek the iterator has just made: the bytes the
\* target shares with the term the iterator stood on, valid_index_prefix
\* and the length of the target at most
ReusedLen ==
    SharedLen(it.was.term, last.target, Min(it.was.vip, Len(last.target)))

\* the seek just made met an iterator on a stack frame whose term was
\* greater than the target
BackwardCase ==
    /\ last.op \in {"seek_exact", "seek_ceil"}
    /\ ~it.panicked
    /\ it.was.seeked
    /\ BytesCmp(it.was.term, last.target) = 1

\* C22 as the code has it: in seek_exact and in seek_ceil, on an iterator
\* that stands on a stack frame with a term greater than the target, the
\* preamble takes the Greater arm, makes the frame at last_frame_idx (the
\* number of final arcs on the reused prefix) current and rewinds it;
\* target_before_current_length becomes 0 in seek_ceil and last_frame_idx in
\* seek_exact.
C22_BackwardSeek ==
    BackwardCase =>
        /\ it.arm.cmp = "Greater"
        /\ it.arm.idx = FinalArcs(it.arcs, ReusedLen)
        /\ it.arm.frame.ord = it.arm.idx
        /\ Rewound(it.arm.frame)
        /\ it.arm.tbcl = (IF last.op = "seek_ceil" THEN 0 ELSE it.arm.idx)

\* C22 as stated: target_before_current_length becomes 0 in both seeks
C22_BackwardSeekZero ==
    BackwardCase =>
        /\ it.arm.cmp = "Greater"
        /\ it.arm.idx = FinalArcs(it.arcs, ReusedLen)
        /\ it.arm.frame.ord = it.arm.idx
        /\ Rewound(it.arm.frame)
        /\ it.arm.tbcl = 0

\* a backward seek_exact below a final arc: the frame made current is not
\* the root frame
C22_Witness ==
    /\ BackwardCase
    /\ last.op = "seek_exact"
    /\ it.arm.cmp = "Greater"
    /\ it.arm.idx >= 1

\* ------------------------------------------------------------------------
\* C23: the index walk of a seek on a positioned iterator
\* ------------------------------------------------------------------------
\* the index has no arc for byte p (counted from 0) of the target of the
\* seek just made
MissAt(p) == SubSeq(last.target, 1, p + 1) \notin IndexNodes(field)

\* C23 in a seek_exact or seek_ceil on an iterator that stands on a stack
\* frame, find_target_arc is called only for target positions at or behind
\* the reused prefix (the bytes the target shares with the current term,
\* min(valid_index_prefix, target.len()) at most), in increasing order, at
\* most once for a position, and never after a call that found no arc.
C23_PrefixReuse ==
    (last.op \in {"seek_exact", "seek_ceil"} /\ ~it.panicked /\ it.was.seeked) =>
        /\ \A k \in 1..Len(it.lookups) :
               it.lookups[k] >= ReusedLen /\ it.lookups[k] < Len(last.target)
        /\ \A k \in 1..(Len(it.lookups) - 1) :
               /\ it.lookups[k] < it.lookups[k + 1]
               /\ ~MissAt(it.lookups[k])

\* a seek that reuses one byte at least, walks the index behind it and ends
\* the walk on a byte the index does not have
C23_Witness ==
    /\ last.op \in {"seek_exact", "seek_ceil"} /\ ~it.panicked /\ it.was.seeked
    /\ ReusedLen >= 1
    /\ Len(it.lookups) >= 2
    /\ it.lookups[1] = ReusedLen
    /\ MissAt(it.lookups[Len(it.lookups)])

\* ------------------------------------------------------------------------
\* C24: the term buffer after a seek_exact that returns false
\* ------------------------------------------------------------------------
\* the index walk of the seek just made ended on a byte without an arc
WalkMissed == it.lookups # <<>> /\ MissAt(it.lookups[Len(it.lookups)])

C25_CeilTail ==
    (last.op = "seek_ceil" /\ ~it.panicked /\ it.tail.status = "End") =>
        /\ it.tail.term = last.target
        /\ ~it.tail.exists
        /\ last.res \in {"NotFound", "End"}
        /\ (last.res = "NotFound") = (it.tail.inner # <<>>)
        /\ (last.res = "End") = (it.tail.inner = <<>>)
        /\ (last.res = "NotFound" => it.tail.inner = << term(it) >>)
        /\ (last.res = "End" => term(it) = <<>> /\ it.eof)

\* a seek_ceil whose scan ran off the end of a block below the root and
\* whose next() found a term in a frame above
C25_Witness ==
    /\ last.op = "seek_ceil" /\ ~it.panicked
    /\ it.tail.status = "End"
    /\ last.res = "NotFound"
    /\ it.tail.inner = << term(it) >>
    /\ BytesCmp(term(it), last.target) = 1

\* ------------------------------------------------------------------------
\* C26: the pop loop of next()
\* ------------------------------------------------------------------------
\* C26 every time next() pops an exhausted last-in-floor frame, the frame
\* popped into is afterwards loaded and stands behind the sub-block entry of
\* the frame popped (last_sub_fp = fp_orig of the child), and
\* valid_index_prefix is no more than the prefix of the frame popped into.
C26_PopRescan ==
    \A k \in 1..Len(it.pops) :
        /\ it.pops[k].parent.next_ent # -1
        /\ it.pops[k].parent.next_ent >= 1
        /\ it.pops[k].parent.last_sub_fp = it.pops[k].child
        /\ it.pops[k].vip <= it.pops[k].parent.prefix

\* a next() that popped into a frame the index walk of a seek had pushed
\* and never loaded: the pop loaded one block and scanned it
C26_Witness ==
    /\ last.op = "next" /\ last.res = "Some"
    /\ nops = 2 /\ ~PlainRun
    /\ Len(it.pops) >= 1
    /\ it.loads >= 1
    /\ it.pops[1].parent.last_sub_fp = it.pops[1].child

\* the value of a var-long: the low seven bits of each byte up to the first
\* byte below 128, weighted by the powers of 128
VLongValue(bytes) ==
    LET n == CHOOSE k \in 1..Len(bytes) :
                 /\ bytes[k] < 128 \/ k = Len(bytes)
                 /\ \A j \in 1..(k - 1) : bytes[j] >= 128
        RECURSIVE Sum(_)
        Sum(k) == IF k > n THEN 0
                  ELSE (bytes[k] % 128) * (128 ^ (k - 1)) + Sum(k + 1)
    IN  Sum(1)

\* push k of the last call came from push_frame_by_data and decoded its
\* code as the claim says; fp is compared only when whole is TRUE
Decoded(k, whole) ==
    LET e == it.pushes[k]
        c == e.code
    IN  c >= 0 =>
            /\ e.after.fp_orig = c \div 4
            /\ whole => e.after.fp = c \div 4
            /\ e.after.has_terms = ((c \div 2) % 2 = 1)
            /\ e.after.is_floor = (c % 2 = 1)
            /\ e.after.prefix = e.length

\* the frame the push found was loaded for the same block and below the
\* rewind bound, so the push kept it where it stood
KeptInPlace(k) ==
    LET e == it.pushes[k]
    IN  /\ e.before.fp_orig = e.fp /\ e.before.next_ent # -1
        /\ e.ord <= e.tbcl

\* C27: the root block pointer of a field is the var-long value of its root
\* code shifted right by two; every frame push_frame_by_data pushes, for the
\* root code and for every index output of a seek, has fp_orig at the code
\* shifted right by two, has_terms and is_floor at the code's bits 1 and 0
\* and prefix at the given length, and the frame it creates or rewinds has
\* fp at fp_orig (a loaded frame the push keeps in place stays on the floor
\* block it stood on)
C27_RootCodeDecoding ==
    /\ FieldReader_new([name |-> field.name], field.num_terms, field.root_code,
                       0, 0, 0, 0, 0, <<>>, <<>>).root_block_fp
           = VLongValue(field.root_code) \div 4
    /\ \A k \in 1..Len(it.pushes) :
           /\ Decoded(k, ~KeptInPlace(k))
           /\ it.pushes[k].length = 0 /\ it.pushes[k].code >= 0
                  => it.pushes[k].code = VLongValue(field.root_code)

\* a seek on the field whose root code takes two bytes pushed the root
\* frame from that code and a floor frame from an index output
C27_Witness ==
    /\ last.op \in {"seek_exact", "seek_ceil"}
    /\ Len(field.root_code) = 2
    /\ \E k \in 1..Len(it.pushes) :
           /\ it.pushes[k].length = 0
           /\ it.pushes[k].code = 282
           /\ it.pushes[k].after.fp = 70
           /\ it.pushes[k].after.has_terms /\ ~it.pushes[k].after.is_floor
    /\ \E k \in 1..Len(it.pushes) :
           it.pushes[k].length > 0 /\ it.pushes[k].after.is_floor

\* the frame push k of the last call found at the pushed ord was loaded for
\* the block the push names
FoundLoaded(k) ==
    /\ it.pushes[k].before.fp_orig = it.pushes[k].fp
    /\ it.pushes[k].before.next_ent # -1

\* C28: every push_frame_by_fp pushes at ord 1 + current_frame_ord and
\* leaves that frame with fp_orig at the given fp and prefix at the given
\* length; a frame found loaded for the same fp_orig is kept, rewound when
\* its ord is above target_before_current_length and untouched otherwise;
\* any other frame is reset to unloaded at the given fp; current_frame_ord
\* and the frames at the other ords stay as they were
C28_PushFrameEffect ==
    \A k \in 1..Len(it.pushes) :
        LET e == it.pushes[k]
        IN  /\ e.after.ord = e.ord
            /\ e.after.fp_orig = e.fp
            /\ e.after.prefix = e.length
            /\ e.rest_same
            /\ IF FoundLoaded(k)
               THEN IF e.ord > e.tbcl
                    THEN Rewound(e.after)
                    ELSE e.after = e.before
               ELSE /\ e.after.next_ent = -1
                    /\ e.after.state.term_block_ord = 0
                    /\ e.after.fp = e.fp
                    /\ e.after.last_sub_fp = -1

\* a seek pushed a frame it found loaded beyond its first entry, above
\* target_before_current_length, and rewound it
C28_Witness ==
    /\ last.op \in {"seek_exact", "seek_ceil"}
    /\ \E k \in 1..Len(it.pushes) :
           /\ FoundLoaded(k)
           /\ it.pushes[k].ord > it.pushes[k].tbcl
           /\ it.pushes[k].before.next_ent > 0
           /\ it.pushes[k].after.next_ent = 0

\* C29: between calls valid_index_prefix is at most the length of the term
\* and below the length of arcs, arcs[0] is the root arc of the index, and
\* the arcs 1..valid_index_prefix carry the first bytes of the current term
\* as their labels
C29_ValidIndexPrefix ==
    ~it.panicked =>
        /\ it.valid_index_prefix >= 0
        /\ it.valid_index_prefix <= it.term_len
        /\ it.valid_index_prefix < Len(it.arcs)
        /\ it.arcs[1] = root_arc(field)
        /\ \A i \in 1..it.valid_index_prefix :
               it.arcs[i + 1].label = it.term[i]

\* a second call on an iterator that a seek had left with cached arcs:
\* two bytes of the term it stands on are backed by arcs, and the term is
\* longer than that
C29_Witness ==
    /\ nops = 2 /\ ~it.panicked
    /\ it.valid_index_prefix = 2
    /\ it.term_len > 2
    /\ Len(it.arcs) >= 3

\* C30: current_frame_ord is at least -1 and below the length of the frame
\* stack, and so was the last_frame_idx the Less and Greater arms of the
\* last seek preamble made current; the frame at position i of the stack
\* has ord i; no call makes the stack shorter
C30_FrameStack ==
    /\ [](/\ it.current_frame_ord >= -1
          /\ it.current_frame_ord < Len(it.stack)
          /\ it.arm.cmp \in {"Less", "Greater"}
                 => it.arm.idx >= 0 /\ it.arm.idx < it.arm.slen
          /\ \A i \in 0..(Len(it.stack) - 1) : Fr(it, i).ord = i)
    /\ [][Len(it'.stack) >= Len(it.stack)]_vars

\* a backward seek made a frame below the top of a stack of three frames
\* current
C30_Witness ==
    /\ it.arm.cmp = "Greater"
    /\ it.arm.slen >= 3
    /\ it.arm.idx >= 1
    /\ it.current_frame_ord < Len(it.stack) - 1

\* ------------------------------------------------------------------------
\* C31, C32: what the stats walk has visited when it ends
\* ------------------------------------------------------------------------
\* C31: when compute_block_stats has finished, total_block_count is the
\* number of blocks the field has in the terms file, every floor block
\* counted as one block
C31_EveryBlockOnce ==
    stats.pc = "done" =>
        stats.st.total_block_count = Cardinality(DOMAIN field.blocks)

\* the sum of the lengths of the terms in the set ts
RECURSIVE SumOfLengths(_)
SumOfLengths(ts) ==
    IF ts = {} THEN 0
    ELSE LET x == CHOOSE y \in ts : TRUE
         IN  Len(x) + SumOfLengths(ts \ {x})

\* C32: after the stats walk of a field, total_term_bytes is the sum of the
\* lengths of all terms of the field
C32_TotalTermBytes ==
    stats.pc = "done" =>
        stats.st.total_term_bytes = SumOfLengths(TermsOf(field))

\* ------------------------------------------------------------------------
\* C33: seek_exact on a field reader without a terms index
\* ------------------------------------------------------------------------
\* C33: on an iterator whose field reader has no loaded index seek_exact
\* returns the IllegalState error, as seek_ceil does, and the iterator is
\* what it was before the call
C33_SeekExactNoIndex ==
    [][(last'.op = "seek_exact" /\ nops' = nops + 1 /\ ~HasIndex(field))
         => /\ last'.res = "IllegalState"
            /\ it' = Enter(it)]_vars

\* ------------------------------------------------------------------------
\* C34: the effect of seek_exact_state
\* ------------------------------------------------------------------------
\* C34: seek_exact_state(text, state) on an iterator that stands on text
\* with term_exists set changes nothing but eof, which it clears; on any
\* other iterator it makes the static frame current, sets term() to text,
\* copies state into the static frame, sets the metadata_upto of the
\* static frame to its term_block_ord and valid_index_prefix to 0, and
\* leaves every frame of the stack as it was
C34_SeekExactState ==
    [][(last'.op = "seek_exact_state" /\ nops' = nops + 1) =>
         IF last'.target = term(it) /\ it.term_exists
         THEN it' = [Enter(it) EXCEPT !.eof = FALSE]
         ELSE /\ ~it'.eof
              /\ it'.current_frame_ord = -1
              /\ term(it') = last'.target
              /\ it'.static_frame.state = SavedState(field, last'.target)
              /\ it'.static_frame.metadata_upto
                    = it'.static_frame.state.term_block_ord
              /\ it'.valid_index_prefix = 0
              /\ it'.stack = it.stack]_vars

\* seek_exact_state to another term on an iterator that stood on a term of
\* a block two frames deep: the static frame is current, the frames stay
C34_Witness ==
    /\ last.op = "seek_exact_state" /\ nops = 2
    /\ it.was.seeked /\ it.was.term # last.target /\ it.was.term # <<>>
    /\ it.current_frame_ord = -1
    /\ Len(it.stack) >= 2
    /\ Fr(it, 1).next_ent >= 1
    /\ it.static_frame.metadata_upto >= 1

\* ------------------------------------------------------------------------
\* C35: a directory entry with a field number the segment does not know
\* ------------------------------------------------------------------------
\* the first directory entry whose field number is not in the field infos
FirstUnknown ==
    CHOOSE k \in 1..Len(seg.entries) :
        /\ seg.entries[k].field \notin DOMAIN seg.field_infos
        /\ \A j \in 1..(k - 1) : seg.entries[j].field \in DOMAIN seg.field_infos

\* C35: a directory entry whose field number is not in the field infos of
\* the segment makes open fail with CorruptIndex: no reader is returned,
\* and the loop over the directory has built field readers for entries
\* before that entry only
C35_UnknownFieldNumber ==
    (/\ reader.status # "closed"
     /\ \E k \in 1..Len(seg.entries) :
            seg.entries[k].field \notin DOMAIN seg.field_infos)
        => /\ reader.status = "CorruptIndex"
           /\ DOMAIN reader = {"status"}
           /\ DOMAIN ReadFields(seg, 1, [err |-> "none", fields |-> NoFields]).fields
                 \subseteq { NameAt(j) : j \in 1..(FirstUnknown - 1) }

\* open has failed on a directory whose first entry is well-formed and
\* whose second entry is well-formed but for its field number
C35_Witness ==
    /\ reader.status = "CorruptIndex"
    /\ any_auto_prefix_terms(seg.version, seg.marker).err = "none"
    /\ seg.num_fields = 2
    /\ seg.entries[1] \in PlainEntries
    /\ seg.entries[2].field \notin DOMAIN seg.field_infos
    /\ ~BreaksCounts(seg.entries[2])
    /\ seg.entries[2].num_bytes >= 0
    /\ seg.entries[2].longs_size = 0

NormsEnd == CHOOSE k \in 1..Len(seg.meta) :
                /\ seg.meta[k].field_num = -1
                /\ \A j \in 1..(k - 1) : seg.meta[j].field_num # -1

\* the entry at position k names a known field without norms, or a known
\* field with norms and a bytes_per_value outside 0, 1, 2, 4, 8
NormsBad(k) ==
    /\ seg.meta[k].field_num \in DOMAIN NormsInfos
    /\ \/ ~NormsInfos[seg.meta[k].field_num].has_norms
       \/ seg.meta[k].bytes_per_value \notin {0, 1, 2, 4, 8}

\* C37: every entry of a norms producer has bytes_per_value 0, 1, 2, 4 or
\* 8 and the number of a field with norms; the producer holds the fields of
\* the entries before the end marker and no others, each with the values of
\* its last entry; a file whose first unreadable entry names a field
\* without norms or another bytes_per_value fails with CorruptIndex; norms()
\* of a field of the producer never meets another bytes_per_value
C37_NormsEntries ==
    /\ reader.status = "open" =>
          /\ \A n \in DOMAIN reader.entries :
                 /\ reader.entries[n].bytes_per_value \in {0, 1, 2, 4, 8}
                 /\ n \in DOMAIN NormsInfos /\ NormsInfos[n].has_norms
                 /\ \E k \in 1..(NormsEnd - 1) :
                        /\ seg.meta[k].field_num = n
                        /\ \A j \in (k + 1)..(NormsEnd - 1) :
                               seg.meta[j].field_num # n
                        /\ reader.entries[n].bytes_per_value
                              = seg.meta[k].bytes_per_value
                        /\ reader.entries[n].offset = seg.meta[k].offset
          /\ DOMAIN reader.entries
                = { seg.meta[k].field_num : k \in 1..(NormsEnd - 1) }
    /\ (/\ reader.status # "closed"
        /\ \E k \in 1..(NormsEnd - 1) :
               /\ NormsBad(k)
               /\ \A j \in 1..(k - 1) :
                      seg.meta[j].field_num \in DOMAIN NormsInfos)
          => reader.status = "CorruptIndex"
    /\ asked.op = "norms" => asked.res.kind # "CorruptIndex"

\* norms() answered by a producer built from a file with two entries of
\* one field that differ in bytes_per_value, and an entry behind the end
\* marker
C37_Witness ==
    /\ reader.status = "open"
    /\ NormsEnd = 3 /\ Len(seg.meta) = 4
    /\ seg.meta[1].field_num = seg.meta[2].field_num
    /\ seg.meta[1].bytes_per_value # seg.meta[2].bytes_per_value
    /\ asked.op = "norms" /\ asked.field = seg.meta[2].field_num
    /\ asked.res.kind = "RandomAccess"
    /\ asked.res.length = seg.max_doc * seg.meta[2].bytes_per_value

====
